---- MODULE Spec2Model ----
(***************************************************************************)
(* The REST client of the dashboard (front/src/app/client.ts) against the  *)
(* media server it calls.  The specifications share the client's code:     *)
(*   SpecSettings - several browser tabs running the encoder bitrate       *)
(*                  helpers against one server's application settings;     *)
(*   SpecCalls    - one call of any client method against any response;    *)
(*   SpecRepeat   - the same call made again after other calls;             *)
(*   SpecLists    - the helpers against lists of any order;                 *)
(*   SpecPages    - the delete buttons and the refreshes of the dashboard   *)
(*                  pages;                                                  *)
(*   SpecPlayback - the WebRTC playback page and its adaptor's callbacks;   *)
(*   SpecHome     - the handlers of the dashboard page and its two flags;   *)
(*   SpecBroadcast - the WebRTC broadcast page and its adaptor.             *)
(***************************************************************************)
EXTENDS Integers, Sequences, FiniteSets, Bags, TLC

VARIABLES
    server,     \* the server's application settings (a JSON object)
    calls,      \* SpecSettings: per tab, the client call it is running
    lastWriter, \* SpecSettings: the tab whose settings write was applied last
    started,    \* SpecSettings: how many helper calls the tabs have started
    cur,        \* SpecCalls: the one client call under way
    page        \* the state of the page that is mounted: the dashboard pages in
                \* SpecPages and SpecHome, the WebRTC playback page in
                \* SpecPlayback, the WebRTC broadcast page in SpecBroadcast

vars == <<server, calls, lastWriter, started, cur, page>>

(***************************************************************************)
(* Input domains.                                                          *)
(***************************************************************************)
Clients == {"tab1", "tab2"}
Heights == {480, 720}
VideoBitrates == {1500, 3000}
AudioBitrates == {128}
ForceEncodes == {FALSE}
\* the longest encoderSettings list the server starts with
MaxProfiles == 2
\* how many helper calls the tabs start in one run
MaxCalls == 2

ServerUrl == "http://ams:5080"
AppName == "live"
JwtTokens == {"undefined", "", "jwt-1"}

(***************************************************************************)
(* JSON objects are functions from keys to values; a key that is missing   *)
(* reads as undefined in the code.                                         *)
(***************************************************************************)
Has(obj, key) == key \in DOMAIN obj

EmptyObject == [k \in {} |-> TRUE]

\* One encoder profile as the helpers build it.
Profile(height, videoBitrate, audioBitrate, forceEncode) ==
    [height |-> height, videoBitrate |-> videoBitrate,
     audioBitrate |-> audioBitrate, forceEncode |-> forceEncode]

Profiles ==
    {Profile(h, v, a, f) : h \in Heights, v \in VideoBitrates,
                           a \in AudioBitrates, f \in ForceEncodes}

HeightsOf(list) == {list[i].height : i \in DOMAIN list}

DistinctHeights(list) ==
    \A i, j \in DOMAIN list : list[i].height = list[j].height => i = j

\* `settings.encoderSettings || []`
EncoderList(settings) ==
    IF Has(settings, "encoderSettings") THEN settings["encoderSettings"] ELSE <<>>

\* Array.prototype.findIndex with (e) => e.height === height; indices here
\* start at 1, so "not found" (-1 in the code) is 0.
RECURSIVE FindIndexFrom(_, _, _)
FindIndexFrom(list, height, i) ==
    IF i > Len(list) THEN 0
    ELSE IF list[i].height = height THEN i
    ELSE FindIndexFrom(list, height, i + 1)

FindIndex(list, height) == FindIndexFrom(list, height, 1)

\* Array.prototype.filter with (e) => e.height !== height
RECURSIVE FilterOut(_, _)
FilterOut(list, height) ==
    IF list = <<>> THEN <<>>
    ELSE IF Head(list).height # height
         THEN <<Head(list)>> \o FilterOut(Tail(list), height)
         ELSE FilterOut(Tail(list), height)

(***************************************************************************)
(* The list each helper computes from the settings it read.                *)
(***************************************************************************)
\* Variants of the add: one that never looks for the height, one that
\* tests `existingIndex > 0`.
AddAlwaysPush(settings, height, videoBitrate, audioBitrate, forceEncode) ==
    Append(EncoderList(settings),
           Profile(height, videoBitrate, audioBitrate, forceEncode))

AddOffByOne(settings, height, videoBitrate, audioBitrate, forceEncode) ==
    LET encoderSettings == EncoderList(settings)
        existingIndex == FindIndex(encoderSettings, height)
        p == Profile(height, videoBitrate, audioBitrate, forceEncode)
    IN  IF existingIndex > 1
        THEN [encoderSettings EXCEPT ![existingIndex] = p]
        ELSE Append(encoderSettings, p)

\* A variant of the add that moves a replaced profile to the end of the list.
AddReplacesAtEnd(settings, height, videoBitrate, audioBitrate, forceEncode) ==
    Append(FilterOut(EncoderList(settings), height),
           Profile(height, videoBitrate, audioBitrate, forceEncode))

\* addEncoderBitrate: replace the profile at existingIndex, else push
AddEncoderList(settings, height, videoBitrate, audioBitrate, forceEncode) ==
    LET encoderSettings == EncoderList(settings)
        existingIndex == FindIndex(encoderSettings, height)
        p == Profile(height, videoBitrate, audioBitrate, forceEncode)
    IN  IF existingIndex >= 1
        THEN [encoderSettings EXCEPT ![existingIndex] = p]
        ELSE Append(encoderSettings, p)

\* A variant of the remove whose filter keeps `e.height === height`.
RECURSIVE FilterIn(_, _)
FilterIn(list, height) ==
    IF list = <<>> THEN <<>>
    ELSE IF Head(list).height = height
         THEN <<Head(list)>> \o FilterIn(Tail(list), height)
         ELSE FilterIn(Tail(list), height)

RemoveInverted(settings, height) == FilterIn(EncoderList(settings), height)

\* removeEncoderBitrate: filter the profiles of that height out
RemoveEncoderList(settings, height) == FilterOut(EncoderList(settings), height)

\* updateEncoderBitrate: the index it looks for, and the list once found
UpdateIndex(settings, height) == FindIndex(EncoderList(settings), height)

UpdateEncoderList(settings, height, videoBitrate, audioBitrate, forceEncode) ==
    [EncoderList(settings) EXCEPT ![UpdateIndex(settings, height)] =
        Profile(height, videoBitrate, audioBitrate, forceEncode)]

(***************************************************************************)
(* The server's side of the settings endpoint: a write is a partial merge, *)
(* only the keys of the body are replaced.                                 *)
(***************************************************************************)
MergeSettings(settings, body) ==
    [k \in DOMAIN settings \cup DOMAIN body |->
        IF k \in DOMAIN body THEN body[k] ELSE settings[k]]

RECURSIVE SeqsUpTo(_, _)
SeqsUpTo(S, n) ==
    IF n = 0 THEN {<<>>}
    ELSE LET shorter == SeqsUpTo(S, n - 1)
         IN  shorter \cup {Append(s, x) : s \in shorter, x \in S}

\* The lists the server may hold at the start: keyed uniquely by height.
InitialLists == {l \in SeqsUpTo(Profiles, MaxProfiles) : DistinctHeights(l)}

InitialSettings ==
    {("encoderSettings" :> l) @@ ("mp4MuxingEnabled" :> TRUE) : l \in InitialLists}
    \cup {"mp4MuxingEnabled" :> TRUE}

(***************************************************************************)
(* HTTP responses as fetch() hands them to the client.  net: fetch itself  *)
(* rejects (the request never completed); json: whether the body parses.   *)
(***************************************************************************)
Response(status, json, body) ==
    [net |-> FALSE, status |-> status, json |-> json, body |-> body]

NetworkFailure == [net |-> TRUE, status |-> 0, json |-> FALSE, body |-> EmptyObject]

\* response.ok
Ok(resp) == resp.status >= 200 /\ resp.status <= 299

\* What a call can throw.  text is the message, with %s where the code
\* interpolates the HTTP status (status) or an argument (detail).
Err(name, text, status, detail) ==
    [name |-> name, text |-> text, status |-> status, detail |-> detail]

NoError == Err("", "", 0, "")
FetchRejected == Err("TypeError", "Failed to fetch", 0, "")
JsonRejected == Err("SyntaxError", "Unexpected token in JSON", 0, "")

NoValue == ("undefined" :> TRUE)

\* How an awaited step ends: kind "ok" with a value, or "error" with what
\* was thrown; bodyRead tells whether response.json() was called.
Returned(value) ==
    [kind |-> "ok", value |-> value, error |-> NoError, bodyRead |-> TRUE]

Thrown(error, bodyRead) ==
    [kind |-> "error", value |-> NoValue, error |-> error, bodyRead |-> bodyRead]

NoResult == [kind |-> "none", value |-> NoValue, error |-> NoError, bodyRead |-> FALSE]

\* `return await response.json()`
ResponseJson(resp) ==
    IF resp.json THEN Returned(resp.body) ELSE Thrown(JsonRejected, TRUE)

\* A variant of the plain shape that answers a failure with an empty object.
StatusOrDefault(text, resp) ==
    IF resp.net \/ ~Ok(resp) \/ ~resp.json THEN Returned(EmptyObject)
    ELSE Returned(resp.body)

\* if (!response.ok) throw new Error(`<text> (HTTP ${response.status})`);
\* return await response.json();
StatusOrJson(text, resp) ==
    IF resp.net THEN Thrown(FetchRejected, FALSE)
    ELSE IF ~Ok(resp) THEN Thrown(Err("Error", text, resp.status, ""), FALSE)
    ELSE ResponseJson(resp)

\* if (!response.ok) { const error = await response.json();
\*     throw new Error(error?.message || `<text> (HTTP ${response.status})`); }
\* return await response.json();
MessageOrJson(text, resp) ==
    IF resp.net THEN Thrown(FetchRejected, FALSE)
    ELSE IF ~Ok(resp)
    THEN IF ~resp.json THEN Thrown(JsonRejected, TRUE)
         ELSE IF Has(resp.body, "message") /\ resp.body["message"] # ""
         THEN Thrown(Err("Error", resp.body["message"], 0, ""), TRUE)
         ELSE Thrown(Err("Error", text, resp.status, ""), TRUE)
    ELSE ResponseJson(resp)

(***************************************************************************)
(* Requests.                                                               *)
(***************************************************************************)
\* an optional string argument that was left out
Undefined == "undefined"

\* `if (value)` on an optional string; on an optional number 0 stands for
\* "left out" as well, both are falsy
Truthy(value) == value # Undefined /\ value # ""

\* a parameter's default value: `name: string = "mp4"`
Default(value, default) == IF value = Undefined THEN default ELSE value

\* An optional boolean argument is <<>> when left out and <<flag>> when
\* given; its default value: `autoStart: boolean = false`
DefaultFlag(flag, default) == IF flag = <<>> THEN default ELSE flag[1]

\* `${flag}` and flag.toString() of a boolean
BoolString(flag) == IF flag THEN "true" ELSE "false"

\* url.searchParams.append(key, value) under `if (given)`
AppendIf(query, given, key, value) ==
    IF given THEN Append(query, <<key, value>>) ELSE query

NoBody == ("nobody" :> TRUE)

\* A variant of buildHeaders that keeps the token of the call before.
buildHeadersSticky(jwtToken) ==
    IF Truthy(jwtToken)
    THEN ("Content-Type" :> "application/json") @@ ("ProxyAuthorization" :> jwtToken)
    ELSE IF Has(cur.call.args, "jwtToken") /\ Truthy(cur.call.args.jwtToken)
    THEN ("Content-Type" :> "application/json")
             @@ ("ProxyAuthorization" :> cur.call.args.jwtToken)
    ELSE ("Content-Type" :> "application/json")

\* A variant of buildHeaders without the content type.
buildHeadersBare(jwtToken) ==
    IF Truthy(jwtToken) THEN ("ProxyAuthorization" :> jwtToken) ELSE EmptyObject

\* buildHeaders
buildHeaders(jwtToken) ==
    IF Truthy(jwtToken)
    THEN ("Content-Type" :> "application/json") @@ ("ProxyAuthorization" :> jwtToken)
    ELSE ("Content-Type" :> "application/json")

\* What fetch() is called with: the URL up to the query, the query
\* parameters in the order they were appended, the headers, the body.
Request(method, url, query, headers, body) ==
    [method |-> method, url |-> url, query |-> query,
     headers |-> headers, body |-> body]

\* url.toString(): the URL with its search parameters, each value encoded as
\* URLSearchParams encodes it (a space becomes +)
UrlString(request) ==
    LET Encoded(value) == IF value = "cam 1" THEN "cam+1" ELSE value
        RECURSIVE Joined(_)
        Joined(query) ==
            IF query = <<>> THEN ""
            ELSE query[1][1] \o "=" \o Encoded(query[1][2])
                     \o (IF Len(query) = 1 THEN "" ELSE "&" \o Joined(Tail(query)))
    IN  IF request.query = <<>> THEN request.url
        ELSE request.url \o "?" \o Joined(request.query)

\* the fetch of getSettings
getSettingsRequest(serverUrl, appName, jwtToken) ==
    Request("GET", serverUrl \o "/rest/v2/applications/settings/" \o appName,
            <<>>, buildHeaders(jwtToken), NoBody)

\* A variant of getSettings' response handling that answers a failed read
\* with an empty settings object.
getSettingsReturnsEmpty(resp) ==
    StatusOrDefault("Failed to get application settings (HTTP %s)", resp)

\* the response handling of getSettings
getSettingsReturn(resp) ==
    StatusOrJson("Failed to get application settings (HTTP %s)", resp)

\* the fetch of updateSettings
updateSettingsRequest(serverUrl, appName, settings, jwtToken) ==
    Request("POST", serverUrl \o "/rest/v2/applications/settings/" \o appName,
            <<>>, buildHeaders(jwtToken), settings)

\* the response handling of updateSettings
updateSettingsReturn(resp) ==
    MessageOrJson("Failed to update settings (HTTP %s)", resp)

(***************************************************************************)
(* A client call: the method, its arguments, the requests it has sent so   *)
(* far, the settings it read (the helpers), and how it ended.              *)
(***************************************************************************)
Idle ==
    [method |-> "", args |-> EmptyObject, pc |-> "idle", requests |-> <<>>,
     settings |-> NoValue, result |-> NoResult]

\* A call that has sent its first request and awaits the response.
Awaiting(method, args, request) ==
    [method |-> method, args |-> args, pc |-> "awaiting",
     requests |-> <<request>>, settings |-> NoValue, result |-> NoResult]

\* The call returns or throws.
Done(call, result) == [call EXCEPT !.pc = "done", !.result = result]

\* The call goes on to updateSettings with the settings it read.
ThenUpdateSettings(call, settings, body) ==
    [call EXCEPT !.settings = settings,
                 !.requests = Append(@, updateSettingsRequest(
                     call.args.serverUrl, call.args.appName, body,
                     call.args.jwtToken))]

HelperArgs(height, videoBitrate, audioBitrate, forceEncode, jwtToken) ==
    [serverUrl |-> ServerUrl, appName |-> AppName, height |-> height,
     videoBitrate |-> videoBitrate, audioBitrate |-> audioBitrate,
     forceEncode |-> forceEncode, jwtToken |-> jwtToken]

\* addEncoderBitrate up to `await this.getSettings(...)`
addEncoderBitrate(args) ==
    Awaiting("addEncoderBitrate", args,
             getSettingsRequest(args.serverUrl, args.appName, args.jwtToken))

\* A variant of the add that writes the whole object it read back.
addEncoderBitrateWritesAll(call, resp) ==
    IF Len(call.requests) = 1
    THEN LET got == getSettingsReturn(resp)
         IN  IF got.kind = "error" THEN Done(call, got)
             ELSE ThenUpdateSettings(call, got.value,
                      MergeSettings(got.value,
                          "encoderSettings" :> AddEncoderList(got.value,
                              call.args.height, call.args.videoBitrate,
                              call.args.audioBitrate, call.args.forceEncode)))
    ELSE Done(call, updateSettingsReturn(resp))

\* addEncoderBitrate from the settings response on
addEncoderBitrateResume(call, resp) ==
    IF Len(call.requests) = 1
    THEN LET got == getSettingsReturn(resp)
         IN  IF got.kind = "error" THEN Done(call, got)
             ELSE ThenUpdateSettings(call, got.value,
                      "encoderSettings" :> AddEncoderList(got.value,
                          call.args.height, call.args.videoBitrate,
                          call.args.audioBitrate, call.args.forceEncode))
    ELSE Done(call, updateSettingsReturn(resp))

\* removeEncoderBitrate up to `await this.getSettings(...)`
removeEncoderBitrate(args) ==
    Awaiting("removeEncoderBitrate", args,
             getSettingsRequest(args.serverUrl, args.appName, args.jwtToken))

\* A variant of the remove that sends its write once more when it failed.
removeEncoderBitrateRetries(call, resp) ==
    IF Len(call.requests) = 1
    THEN LET got == getSettingsReturn(resp)
         IN  IF got.kind = "error" THEN Done(call, got)
             ELSE ThenUpdateSettings(call, got.value,
                      "encoderSettings" :>
                          RemoveEncoderList(got.value, call.args.height))
    ELSE IF Len(call.requests) = 2 /\ updateSettingsReturn(resp).kind = "error"
    THEN [call EXCEPT !.requests = Append(@, call.requests[2])]
    ELSE Done(call, updateSettingsReturn(resp))

\* removeEncoderBitrate from the settings response on
removeEncoderBitrateResume(call, resp) ==
    IF Len(call.requests) = 1
    THEN LET got == getSettingsReturn(resp)
         IN  IF got.kind = "error" THEN Done(call, got)
             ELSE ThenUpdateSettings(call, got.value,
                      "encoderSettings" :>
                          RemoveEncoderList(got.value, call.args.height))
    ELSE Done(call, updateSettingsReturn(resp))

\* A variant of the lookup that takes every height as present.
UpdateNeverMissing(settings, height) == FALSE

\* updateEncoderBitrate: `index < 0`
UpdateMissing(settings, height) == UpdateIndex(settings, height) < 1

\* updateEncoderBitrate up to `await this.getSettings(...)`
updateEncoderBitrate(args) ==
    Awaiting("updateEncoderBitrate", args,
             getSettingsRequest(args.serverUrl, args.appName, args.jwtToken))

\* updateEncoderBitrate from the settings response on
updateEncoderBitrateResume(call, resp) ==
    IF Len(call.requests) = 1
    THEN LET got == getSettingsReturn(resp)
         IN  IF got.kind = "error" THEN Done(call, got)
             ELSE IF UpdateMissing(got.value, call.args.height)
             THEN Done([call EXCEPT !.settings = got.value],
                       Thrown(Err("Error",
                                  "Encoder bitrate profile for height %s not found",
                                  0, ToString(call.args.height)), TRUE))
             ELSE ThenUpdateSettings(call, got.value,
                      "encoderSettings" :> UpdateEncoderList(got.value,
                          call.args.height, call.args.videoBitrate,
                          call.args.audioBitrate, call.args.forceEncode))
    ELSE Done(call, updateSettingsReturn(resp))

\* setMp4RecordingEnabled: one updateSettings with { mp4MuxingEnabled }
setMp4RecordingEnabled(args) ==
    Awaiting("setMp4RecordingEnabled", args,
             updateSettingsRequest(args.serverUrl, args.appName,
                 "mp4MuxingEnabled" :> args.enabled, args.jwtToken))

setMp4RecordingEnabledResume(call, resp) == Done(call, updateSettingsReturn(resp))

(***************************************************************************)
(* The methods that send one request.  For each: the call up to its await  *)
(* (the request it builds) and what it makes of the response.              *)
(***************************************************************************)
\* authenticate
authenticate(args) ==
    Awaiting("authenticate", args,
        Request("POST", args.serverUrl \o "/rest/v2/users/authenticate", <<>>,
                buildHeaders(Undefined),
                [email |-> args.email, password |-> args.password]))

\* A variant of authenticate's error branch that reads the error body.
authenticateReadsError(resp) ==
    MessageOrJson("Failed to authenticate", resp)

authenticateReturn(resp) ==
    IF resp.net THEN Thrown(FetchRejected, FALSE)
    ELSE IF ~Ok(resp) THEN Thrown(Err("Error", "Failed to authenticate", 0, ""), FALSE)
    ELSE ResponseJson(resp)

\* createInitialUser
createInitialUser(args) ==
    LET userObject ==
            [email |-> args.email, password |-> args.password,
             userType |-> Default(args.userType, "ADMIN")]
        withFirst == IF Truthy(args.firstName)
                     THEN userObject @@ ("firstName" :> args.firstName)
                     ELSE userObject
        withLast == IF Truthy(args.lastName)
                    THEN withFirst @@ ("lastName" :> args.lastName)
                    ELSE withFirst
    IN  Awaiting("createInitialUser", args,
            Request("POST", args.serverUrl \o "/rest/v2/users/initial", <<>>,
                    buildHeaders(Undefined), withLast))

createInitialUserReturn(resp) ==
    MessageOrJson("Failed to create initial user (HTTP %s)", resp)

\* A variant of createBroadcast that sends the flag only when it is set.
createBroadcastOmitsFalse(args) ==
    Awaiting("createBroadcast", args,
        Request("POST",
                args.serverUrl \o "/" \o args.appName \o "/rest/v2/broadcasts/create",
                AppendIf(<<>>, DefaultFlag(args.autoStart, FALSE), "autoStart", "true"),
                buildHeaders(Undefined), args.broadcast))

\* createBroadcast
createBroadcast(args) ==
    Awaiting("createBroadcast", args,
        Request("POST",
                args.serverUrl \o "/" \o args.appName \o "/rest/v2/broadcasts/create",
                <<<<"autoStart", BoolString(DefaultFlag(args.autoStart, FALSE))>>>>,
                buildHeaders(Undefined), args.broadcast))

createBroadcastReturn(resp) ==
    MessageOrJson("Failed to create broadcast (HTTP %s)", resp)

\* A variant of fetchBroadcasts that appends every filter, given or not.
fetchBroadcastsSendsAll(args) ==
    Awaiting("fetchBroadcasts", args,
        Request("GET",
                args.serverUrl \o "/" \o args.appName
                    \o "/rest/v2/broadcasts/list/" \o ToString(args.offset)
                    \o "/" \o ToString(args.size),
                <<<<"type_by", args.type_by>>, <<"sort_by", args.sort_by>>,
                  <<"order_by", args.order_by>>, <<"search", args.search>>>>,
                buildHeaders(Undefined), NoBody))

\* fetchBroadcasts
fetchBroadcasts(args) ==
    LET q1 == AppendIf(<<>>, Truthy(args.type_by), "type_by", args.type_by)
        q2 == AppendIf(q1, Truthy(args.sort_by), "sort_by", args.sort_by)
        q3 == AppendIf(q2, Truthy(args.order_by), "order_by", args.order_by)
        q4 == AppendIf(q3, Truthy(args.search), "search", args.search)
    IN  Awaiting("fetchBroadcasts", args,
            Request("GET",
                    args.serverUrl \o "/" \o args.appName
                        \o "/rest/v2/broadcasts/list/" \o ToString(args.offset)
                        \o "/" \o ToString(args.size),
                    q4, buildHeaders(Undefined), NoBody))

fetchBroadcastsReturn(resp) ==
    StatusOrJson("Failed to fetch broadcasts (HTTP %s)", resp)

\* if (!response.ok) throw new Error(response.status === 404
\*     ? `<missing>${id}` : `<text> (HTTP ${response.status})`);
\* return await response.json();
NotFoundOrJson(missing, id, text, resp) ==
    IF resp.net THEN Thrown(FetchRejected, FALSE)
    ELSE IF ~Ok(resp)
    THEN IF resp.status = 404
         THEN Thrown(Err("Error", missing, 0, id), FALSE)
         ELSE Thrown(Err("Error", text, resp.status, ""), FALSE)
    ELSE ResponseJson(resp)

\* A variant of getBroadcast that passes its token on.
getBroadcastWithToken(args) ==
    Awaiting("getBroadcast", args,
        Request("GET",
                args.serverUrl \o "/" \o args.appName \o "/rest/v2/broadcasts/"
                    \o args.streamId,
                <<>>, buildHeaders(args.jwtToken), NoBody))

\* getBroadcast
getBroadcast(args) ==
    Awaiting("getBroadcast", args,
        Request("GET",
                args.serverUrl \o "/" \o args.appName \o "/rest/v2/broadcasts/"
                    \o args.streamId,
                <<>>, buildHeaders(Undefined), NoBody))

\* A variant of getBroadcast without the 404 case.
getBroadcastPlain(args, resp) ==
    StatusOrJson("Failed to get broadcast (HTTP %s)", resp)

getBroadcastReturn(args, resp) ==
    NotFoundOrJson("Broadcast not found: %s", args.streamId,
                   "Failed to get broadcast (HTTP %s)", resp)

\* updateBroadcast
updateBroadcast(args) ==
    Awaiting("updateBroadcast", args,
        Request("PUT",
                args.serverUrl \o "/" \o args.appName \o "/rest/v2/broadcasts/"
                    \o args.streamId,
                <<>>, buildHeaders(Undefined), args.broadcast))

updateBroadcastReturn(resp) ==
    StatusOrJson("Failed to update broadcast (HTTP %s)", resp)

\* A variant of deleteBroadcast that always asks for the sub-tracks.
deleteBroadcastAlwaysSubtracks(args) ==
    Awaiting("deleteBroadcast", args,
        Request("DELETE",
                args.serverUrl \o "/" \o args.appName \o "/rest/v2/broadcasts/"
                    \o args.streamId,
                <<<<"deleteSubtracks", "true">>>>,
                buildHeaders(Undefined), NoBody))

\* deleteBroadcast
deleteBroadcast(args) ==
    Awaiting("deleteBroadcast", args,
        Request("DELETE",
                args.serverUrl \o "/" \o args.appName \o "/rest/v2/broadcasts/"
                    \o args.streamId,
                AppendIf(<<>>, DefaultFlag(args.deleteSubtracks, FALSE),
                         "deleteSubtracks", "true"),
                buildHeaders(Undefined), NoBody))

deleteBroadcastReturn(resp) ==
    StatusOrJson("Failed to delete broadcast (HTTP %s)", resp)

\* getBroadcastCount
getBroadcastCount(args) ==
    Awaiting("getBroadcastCount", args,
        Request("GET",
                args.serverUrl \o "/" \o args.appName \o "/rest/v2/broadcasts/count",
                <<>>, buildHeaders(Undefined), NoBody))

getBroadcastCountReturn(resp) ==
    StatusOrJson("Failed to get broadcast count (HTTP %s)", resp)

\* getSettings and updateSettings called on their own
getSettings(args) ==
    Awaiting("getSettings", args,
             getSettingsRequest(args.serverUrl, args.appName, args.jwtToken))

updateSettings(args) ==
    Awaiting("updateSettings", args,
             updateSettingsRequest(args.serverUrl, args.appName, args.settings,
                                   args.jwtToken))

\* a JSON array as a returned value
JsonArray(list) == "array" :> list

\* getEncoderSettings: `return settings.encoderSettings || []`
getEncoderSettings(args) ==
    Awaiting("getEncoderSettings", args,
             getSettingsRequest(args.serverUrl, args.appName, args.jwtToken))

getEncoderSettingsReturn(resp) ==
    LET got == getSettingsReturn(resp)
    IN  IF got.kind = "error" THEN got
        ELSE Returned(JsonArray(EncoderList(got.value)))

\* getAllEncoderBitrates: getEncoderSettings under another name
getAllEncoderBitrates(args) ==
    Awaiting("getAllEncoderBitrates", args,
             getSettingsRequest(args.serverUrl, args.appName, args.jwtToken))

getAllEncoderBitratesReturn(resp) == getEncoderSettingsReturn(resp)

\* the fetch of setStreamRecording; resolutionHeight 0 is "left out"
\* A variant of the recording request with the file name ahead of the height.
setStreamRecordingSwapped(args, enabled, recordTypeArg, resolutionHeight, fileName) ==
    LET recordType == Default(recordTypeArg, "mp4")
        q1 == AppendIf(<<>>, Truthy(recordType), "recordType", recordType)
        q2 == AppendIf(q1, Truthy(fileName), "fileName", fileName)
        q3 == AppendIf(q2, resolutionHeight # 0, "resolutionHeight",
                       ToString(resolutionHeight))
    IN  Request("PUT",
                args.serverUrl \o "/" \o args.appName \o "/rest/v2/broadcasts/"
                    \o args.streamId \o "/recording/" \o BoolString(enabled),
                q3, buildHeaders(Undefined), NoBody)

setStreamRecordingRequest(args, enabled, recordTypeArg, resolutionHeight, fileName) ==
    LET recordType == Default(recordTypeArg, "mp4")
        q1 == AppendIf(<<>>, Truthy(recordType), "recordType", recordType)
        q2 == AppendIf(q1, resolutionHeight # 0, "resolutionHeight",
                       ToString(resolutionHeight))
        q3 == AppendIf(q2, Truthy(fileName), "fileName", fileName)
    IN  Request("PUT",
                args.serverUrl \o "/" \o args.appName \o "/rest/v2/broadcasts/"
                    \o args.streamId \o "/recording/" \o BoolString(enabled),
                q3, buildHeaders(Undefined), NoBody)

setStreamRecording(args) ==
    Awaiting("setStreamRecording", args,
        setStreamRecordingRequest(args, args.enabled, args.recordType,
                                  args.resolutionHeight, args.fileName))

setStreamRecordingReturn(resp) ==
    StatusOrJson("Failed to set stream recording (HTTP %s)", resp)

\* enableRecording: setStreamRecording(..., true, options?.recordType || "mp4", ...)
enableRecording(args) ==
    Awaiting("enableRecording", args,
        setStreamRecordingRequest(args, TRUE,
            IF Truthy(args.recordType) THEN args.recordType ELSE "mp4",
            args.resolutionHeight, args.fileName))

\* disableRecording: setStreamRecording(..., false, "mp4", undefined, undefined)
disableRecording(args) ==
    Awaiting("disableRecording", args,
        setStreamRecordingRequest(args, FALSE, "mp4", 0, Undefined))

\* getVodList
getVodList(args) ==
    LET q1 == AppendIf(<<>>, Truthy(args.sort_by), "sort_by", args.sort_by)
        q2 == AppendIf(q1, Truthy(args.order_by), "order_by", args.order_by)
        q3 == AppendIf(q2, Truthy(args.streamId), "streamId", args.streamId)
        q4 == AppendIf(q3, Truthy(args.search), "search", args.search)
    IN  Awaiting("getVodList", args,
            Request("GET",
                    args.serverUrl \o "/" \o args.appName \o "/rest/v2/vods/list/"
                        \o ToString(args.offset) \o "/" \o ToString(args.size),
                    q4, buildHeaders(Undefined), NoBody))

getVodListReturn(resp) == StatusOrJson("Failed to get VOD list (HTTP %s)", resp)

\* getVodCount
getVodCount(args) ==
    Awaiting("getVodCount", args,
        Request("GET", args.serverUrl \o "/" \o args.appName \o "/rest/v2/vods/count",
                <<>>, buildHeaders(Undefined), NoBody))

getVodCountReturn(resp) == StatusOrJson("Failed to get VOD count (HTTP %s)", resp)

\* encodeURIComponent on the search terms of SearchTerms
EncodeURIComponent(text) ==
    CASE text = "cam 1" -> "cam%201"
      [] text = "a/b" -> "a%2Fb"
      [] OTHER -> text

\* getVodCountBySearch
getVodCountBySearch(args) ==
    Awaiting("getVodCountBySearch", args,
        Request("GET",
                args.serverUrl \o "/" \o args.appName \o "/rest/v2/vods/count/"
                    \o EncodeURIComponent(args.search),
                <<>>, buildHeaders(Undefined), NoBody))

getVodCountBySearchReturn(resp) ==
    StatusOrJson("Failed to get VOD count by search (HTTP %s)", resp)

\* getVod
getVod(args) ==
    Awaiting("getVod", args,
        Request("GET",
                args.serverUrl \o "/" \o args.appName \o "/rest/v2/vods/" \o args.vodId,
                <<>>, buildHeaders(Undefined), NoBody))

getVodReturn(args, resp) ==
    NotFoundOrJson("VOD not found: %s", args.vodId, "Failed to get VOD (HTTP %s)", resp)

\* deleteVod
deleteVod(args) ==
    Awaiting("deleteVod", args,
        Request("DELETE",
                args.serverUrl \o "/" \o args.appName \o "/rest/v2/vods/" \o args.vodId,
                <<>>, buildHeaders(Undefined), NoBody))

deleteVodReturn(resp) == StatusOrJson("Failed to delete VOD (HTTP %s)", resp)

\* vodIds.join(",")
RECURSIVE Join(_)
Join(ids) ==
    IF ids = <<>> THEN ""
    ELSE IF Len(ids) = 1 THEN ids[1]
    ELSE ids[1] \o "," \o Join(Tail(ids))

\* deleteVods
deleteVods(args) ==
    Awaiting("deleteVods", args,
        Request("DELETE", args.serverUrl \o "/" \o args.appName \o "/rest/v2/vods",
                <<<<"ids", Join(args.vodIds)>>>>, buildHeaders(Undefined), NoBody))

deleteVodsReturn(resp) == StatusOrJson("Failed to delete VODs (HTTP %s)", resp)

\* unlinkVodDirectory
unlinkVodDirectory(args) ==
    Awaiting("unlinkVodDirectory", args,
        Request("DELETE",
                args.serverUrl \o "/" \o args.appName \o "/rest/v2/vods/directory",
                <<<<"directory", args.directory>>>>, buildHeaders(Undefined), NoBody))

unlinkVodDirectoryReturn(resp) ==
    StatusOrJson("Failed to unlink VOD directory (HTTP %s)", resp)

\* uploadVod: a multipart form, and no headers of the client's own
uploadVod(args) ==
    Awaiting("uploadVod", args,
        Request("POST",
                args.serverUrl \o "/" \o args.appName \o "/rest/v2/vods/create",
                <<<<"name", args.name>>>>, EmptyObject,
                IF args.metadata # Undefined
                THEN [file |-> args.file, metadata |-> args.metadata]
                ELSE [file |-> args.file]))

uploadVodReturn(resp) == StatusOrJson("Failed to upload VOD (HTTP %s)", resp)

\* importVodDirectory
importVodDirectory(args) ==
    Awaiting("importVodDirectory", args,
        Request("POST",
                args.serverUrl \o "/" \o args.appName \o "/rest/v2/vods/directory",
                <<<<"directory", args.directory>>>>, buildHeaders(Undefined), NoBody))

importVodDirectoryReturn(resp) ==
    StatusOrJson("Failed to import VOD directory (HTTP %s)", resp)

\* importVodsToStalker
importVodsToStalker(args) ==
    Awaiting("importVodsToStalker", args,
        Request("POST",
                args.serverUrl \o "/" \o args.appName
                    \o "/rest/v2/vods/import-to-stalker",
                <<>>, buildHeaders(Undefined), NoBody))

importVodsToStalkerReturn(resp) ==
    StatusOrJson("Failed to import VODs to Stalker (HTTP %s)", resp)

\* A method called with its arguments, up to its first await.
Invoke(method, args) ==
    CASE method = "authenticate" -> authenticate(args)
      [] method = "createInitialUser" -> createInitialUser(args)
      [] method = "createBroadcast" -> createBroadcast(args)
      [] method = "fetchBroadcasts" -> fetchBroadcasts(args)
      [] method = "getBroadcast" -> getBroadcast(args)
      [] method = "updateBroadcast" -> updateBroadcast(args)
      [] method = "deleteBroadcast" -> deleteBroadcast(args)
      [] method = "getBroadcastCount" -> getBroadcastCount(args)
      [] method = "getSettings" -> getSettings(args)
      [] method = "updateSettings" -> updateSettings(args)
      [] method = "setMp4RecordingEnabled" -> setMp4RecordingEnabled(args)
      [] method = "getEncoderSettings" -> getEncoderSettings(args)
      [] method = "getAllEncoderBitrates" -> getAllEncoderBitrates(args)
      [] method = "addEncoderBitrate" -> addEncoderBitrate(args)
      [] method = "removeEncoderBitrate" -> removeEncoderBitrate(args)
      [] method = "updateEncoderBitrate" -> updateEncoderBitrate(args)
      [] method = "setStreamRecording" -> setStreamRecording(args)
      [] method = "enableRecording" -> enableRecording(args)
      [] method = "disableRecording" -> disableRecording(args)
      [] method = "getVodList" -> getVodList(args)
      [] method = "getVodCount" -> getVodCount(args)
      [] method = "getVodCountBySearch" -> getVodCountBySearch(args)
      [] method = "getVod" -> getVod(args)
      [] method = "deleteVod" -> deleteVod(args)
      [] method = "deleteVods" -> deleteVods(args)
      [] method = "unlinkVodDirectory" -> unlinkVodDirectory(args)
      [] method = "uploadVod" -> uploadVod(args)
      [] method = "importVodDirectory" -> importVodDirectory(args)
      [] method = "importVodsToStalker" -> importVodsToStalker(args)

\* The rest of a call once the response to its last request is there.
Resume(call, resp) ==
    CASE call.method = "addEncoderBitrate" -> addEncoderBitrateResume(call, resp)
      [] call.method = "removeEncoderBitrate" -> removeEncoderBitrateResume(call, resp)
      [] call.method = "updateEncoderBitrate" -> updateEncoderBitrateResume(call, resp)
      [] call.method = "setMp4RecordingEnabled" -> setMp4RecordingEnabledResume(call, resp)
      [] call.method = "authenticate" -> Done(call, authenticateReturn(resp))
      [] call.method = "createInitialUser" -> Done(call, createInitialUserReturn(resp))
      [] call.method = "createBroadcast" -> Done(call, createBroadcastReturn(resp))
      [] call.method = "fetchBroadcasts" -> Done(call, fetchBroadcastsReturn(resp))
      [] call.method = "getBroadcast" -> Done(call, getBroadcastReturn(call.args, resp))
      [] call.method = "updateBroadcast" -> Done(call, updateBroadcastReturn(resp))
      [] call.method = "deleteBroadcast" -> Done(call, deleteBroadcastReturn(resp))
      [] call.method = "getBroadcastCount" -> Done(call, getBroadcastCountReturn(resp))
      [] call.method = "getSettings" -> Done(call, getSettingsReturn(resp))
      [] call.method = "updateSettings" -> Done(call, updateSettingsReturn(resp))
      [] call.method = "getEncoderSettings" -> Done(call, getEncoderSettingsReturn(resp))
      [] call.method = "getAllEncoderBitrates" ->
            Done(call, getAllEncoderBitratesReturn(resp))
      [] call.method \in {"setStreamRecording", "enableRecording", "disableRecording"} ->
            Done(call, setStreamRecordingReturn(resp))
      [] call.method = "getVodList" -> Done(call, getVodListReturn(resp))
      [] call.method = "getVodCount" -> Done(call, getVodCountReturn(resp))
      [] call.method = "getVodCountBySearch" ->
            Done(call, getVodCountBySearchReturn(resp))
      [] call.method = "getVod" -> Done(call, getVodReturn(call.args, resp))
      [] call.method = "deleteVod" -> Done(call, deleteVodReturn(resp))
      [] call.method = "deleteVods" -> Done(call, deleteVodsReturn(resp))
      [] call.method = "unlinkVodDirectory" -> Done(call, unlinkVodDirectoryReturn(resp))
      [] call.method = "uploadVod" -> Done(call, uploadVodReturn(resp))
      [] call.method = "importVodDirectory" -> Done(call, importVodDirectoryReturn(resp))
      [] call.method = "importVodsToStalker" ->
            Done(call, importVodsToStalkerReturn(resp))

LastRequest(call) == call.requests[Len(call.requests)]

\* SpecCalls follows one call and keeps the responses it was given.
\* SpecRepeat keeps beside it an earlier call that has ended (first) and
\* whether other calls were made since (since, up to MaxSince).
(***************************************************************************)
(* The dashboard pages: Home (page.tsx) and StreamDetailPage               *)
(* (lib/webrtc.ts).  One of them is mounted at a time (route).  A handler  *)
(* runs up to its first await in one step; what it awaits is in `flying`   *)
(* until the response lands.  prompts and sent list the window.confirm     *)
(* dialogs shown and the requests the pages' calls have sent.              *)
(***************************************************************************)
PageServerUrl == "http://localhost:5080"
PageAppName == "LiveApp"
\* useParams().id of the detail page
RouteStreamId == "s1"
\* deletingVodId: string | null
Null == "null"

\* the useState(...) initial values of both pages.  flying holds the awaited
\* calls in the order they were sent; overtaken: how many of the awaited
\* fetchBroadcast calls, from the oldest on, were sent before one that has
\* been answered; stale: the last fetchBroadcast answer the page took was
\* of such a call.
Constructed(route) ==
    [route |-> route,
     loading |-> FALSE, streams |-> <<>>,
     detailLoading |-> TRUE, refreshing |-> FALSE, error |-> <<>>,
     broadcast |-> <<>>, vods |-> <<>>, vodsLoading |-> FALSE,
     deleting |-> FALSE, deletingVodId |-> Null,
     prompts |-> <<>>, sent |-> <<>>, flying |-> <<>>, clicks |-> 0,
     overtaken |-> 0, stale |-> FALSE]

\* name || id
NameOr(name, id) == IF Truthy(name) THEN name ELSE id

\* window.confirm(`Are you sure you want to delete the <kind> "<named>"? ...`)
Confirm(kind, named, confirmed) ==
    [kind |-> kind, named |-> named, confirmed |-> confirmed]

\* `handler` has sent the first request of `call` and awaits it
Sending(p, handler, call, flag) ==
    [p EXCEPT !.flying = Append(@, [handler |-> handler, call |-> call, flag |-> flag]),
              !.sent = Append(@, call.requests[1])]

\* the i-th awaited call has its response
Landed(p, i) ==
    [p EXCEPT !.flying = SubSeq(@, 1, i - 1) \o SubSeq(@, i + 1, Len(@))]

\* Home.fetchBroadcasts up to its await
StartFetchBroadcasts(p) ==
    Sending([p EXCEPT !.loading = TRUE], "fetchBroadcasts",
            fetchBroadcasts([serverUrl |-> PageServerUrl, appName |-> PageAppName,
                             offset |-> 0, size |-> 50, type_by |-> Undefined,
                             sort_by |-> Undefined, order_by |-> Undefined,
                             search |-> Undefined, jwtToken |-> "jwt-1"]),
            FALSE)

\* StreamDetailPage.fetchBroadcast up to its await
StartFetchBroadcast(p, isAutoRefresh) ==
    Sending([p EXCEPT !.refreshing = IF isAutoRefresh THEN TRUE ELSE @,
                      !.detailLoading = IF isAutoRefresh THEN @ ELSE TRUE,
                      !.error = <<>>],
            "fetchBroadcast",
            getBroadcast([serverUrl |-> PageServerUrl, appName |-> PageAppName,
                          streamId |-> RouteStreamId, jwtToken |-> Undefined]),
            isAutoRefresh)

\* StreamDetailPage.fetchVods up to its await; inDelete: handleDeleteVod
\* awaits it
StartFetchVods(p, inDelete) ==
    Sending([p EXCEPT !.vodsLoading = TRUE], "fetchVods",
            getVodList([serverUrl |-> PageServerUrl, appName |-> PageAppName,
                        offset |-> 0, size |-> 50, sort_by |-> "date",
                        order_by |-> "desc", streamId |-> RouteStreamId,
                        search |-> Undefined, jwtToken |-> Undefined]),
            inDelete)

MaxSince == 2

NoEarlier == [call |-> Idle, responses |-> <<>>, since |-> 0]

NotCalled == [call |-> Idle, responses |-> <<>>, first |-> NoEarlier]

Called(call) == [call |-> call, responses |-> <<>>, first |-> NoEarlier]

(***************************************************************************)
(* SpecSettings: the tabs of Clients run the helpers against one server.   *)
(* Beside its call each tab carries the bookkeeping the properties read:   *)
(*   staleBy - the tabs whose write was applied between the call's read    *)
(*             and its own write;                                          *)
(*   applied - whether the server applied the call's write.                *)
(***************************************************************************)
Tracked(call) == [call |-> call, staleBy |-> {}, applied |-> FALSE]

NoTab == ""

\* the token the page passes on settings calls
PageToken == "jwt-1"

CanStart(c) == calls[c].call.pc \in {"idle", "done"} /\ started < MaxCalls

Started(c, call) ==
    [calls EXCEPT ![c] = Tracked(call)]

TabAddEncoderBitrate(c) ==
    /\ CanStart(c)
    /\ \E h \in Heights, v \in VideoBitrates, a \in AudioBitrates, f \in ForceEncodes :
        calls' = Started(c, addEncoderBitrate(HelperArgs(h, v, a, f, PageToken)))
    /\ started' = started + 1
    /\ UNCHANGED <<server, lastWriter, cur, page>>

TabUpdateEncoderBitrate(c) ==
    /\ CanStart(c)
    /\ \E h \in Heights, v \in VideoBitrates, a \in AudioBitrates, f \in ForceEncodes :
        calls' = Started(c, updateEncoderBitrate(HelperArgs(h, v, a, f, PageToken)))
    /\ started' = started + 1
    /\ UNCHANGED <<server, lastWriter, cur, page>>

TabRemoveEncoderBitrate(c) ==
    /\ CanStart(c)
    /\ \E h \in Heights :
        calls' = Started(c, removeEncoderBitrate(
            [serverUrl |-> ServerUrl, appName |-> AppName, height |-> h,
             jwtToken |-> PageToken]))
    /\ started' = started + 1
    /\ UNCHANGED <<server, lastWriter, cur, page>>

\* What the server may answer to a settings read.
SettingsReadResponses(settings) ==
    {Response(200, TRUE, settings), Response(200, FALSE, EmptyObject),
     Response(500, TRUE, "message" :> "internal error"), NetworkFailure}

\* What the server may answer to a settings write; it applies the write
\* exactly when it answers 2xx.
SettingsWriteResponses ==
    {Response(200, TRUE, "success" :> TRUE),
     Response(500, TRUE, "message" :> "internal error"), NetworkFailure}

\* The server answers tab c's settings read; the tab goes on at once, up to
\* its next await (the write) or its end.
ServerGetSettings(c) ==
    /\ calls[c].call.pc = "awaiting"
    /\ LastRequest(calls[c].call).method = "GET"
    /\ \E resp \in SettingsReadResponses(server) :
        calls' = [calls EXCEPT ![c] =
                    [call |-> Resume(calls[c].call, resp), staleBy |-> {},
                     applied |-> FALSE]]
    /\ UNCHANGED <<server, lastWriter, started, cur, page>>

\* The server handles tab c's settings write and the tab's call ends.
ServerPostSettings(c) ==
    /\ calls[c].call.pc = "awaiting"
    /\ LastRequest(calls[c].call).method = "POST"
    /\ \E resp \in SettingsWriteResponses :
        LET call == calls[c].call
            accepted == Ok(resp)
        IN  /\ server' = IF accepted
                         THEN MergeSettings(server, LastRequest(call).body)
                         ELSE server
            /\ lastWriter' = IF accepted THEN c ELSE lastWriter
            /\ calls' =
                 [d \in Clients |->
                    IF d = c
                    THEN [calls[c] EXCEPT !.call = Resume(call, resp),
                                          !.applied = accepted]
                    ELSE IF accepted /\ calls[d].call.pc = "awaiting"
                            /\ Len(calls[d].call.requests) = 2
                         THEN [calls[d] EXCEPT !.staleBy = @ \cup {c}]
                         ELSE calls[d]]
    /\ UNCHANGED <<started, cur, page>>

InitSettings ==
    /\ server \in InitialSettings
    /\ calls = [c \in Clients |-> Tracked(Idle)]
    /\ lastWriter = NoTab
    /\ started = 0
    /\ cur = NotCalled
    /\ page = Constructed("/")

NextSettings ==
    \E c \in Clients :
        \/ TabAddEncoderBitrate(c)
        \/ TabUpdateEncoderBitrate(c)
        \/ TabRemoveEncoderBitrate(c)
        \/ ServerGetSettings(c)
        \/ ServerPostSettings(c)

SpecSettings == InitSettings /\ [][NextSettings]_vars

(***************************************************************************)
(* SpecCalls: a page calls one method after the other, each against a      *)
(* server that may answer anything: any status, a JSON body or one that    *)
(* does not parse, or no answer at all.                                    *)
(***************************************************************************)
Emails == {"admin@ams.io"}
Passwords == {"secret"}
FirstNames == {Undefined, "Ann"}
LastNames == {Undefined, "Lee"}
UserTypes == {Undefined, "READ_ONLY"}
StreamIds == {"s1", "stream1"}
VodIds == {"vod1", "vod2"}
Broadcasts == {EmptyObject, [name |-> "show"]}
OptionalFlags == {<<>>, <<TRUE>>, <<FALSE>>}
Offsets == {0, 20}
Sizes == {10, 50}
TypeBys == {Undefined, "liveStream"}
SortBys == {Undefined, "date"}
OrderBys == {Undefined, "desc"}
SearchTerms == {Undefined, "", "cam 1"}
RecordTypes == {Undefined, "", "mp4", "webm"}
ResolutionHeights == {0, 720}
FileNames == {Undefined, "take1"}
Directories == {"/mnt/vods"}
Files == {"clip.mp4"}
Metadatas == {Undefined, "{}"}
VodIdLists == {<<"vod1">>, <<"vod1", "vod2">>}
SettingsBodies ==
    {"encoderSettings" :> <<Profile(720, 3000, 128, FALSE)>>,
     "mp4MuxingEnabled" :> FALSE}

Statuses == {200, 404, 500}

JsonBodies ==
    {"message" :> "denied",
     "success" :> TRUE,
     ("encoderSettings" :> <<Profile(480, 1500, 128, FALSE)>>)
         @@ ("mp4MuxingEnabled" :> TRUE),
     "mp4MuxingEnabled" :> TRUE}

Responses ==
    {Response(status, TRUE, body) : status \in Statuses, body \in JsonBodies}
        \cup {Response(status, FALSE, EmptyObject) : status \in Statuses}
        \cup {NetworkFailure}

\* A method is awaited by its caller: the next call of a page comes after the
\* caller has taken the value or the error of the one before.
CanCall == cur.call.pc = "idle"

Rest == <<server, calls, lastWriter, started, page>>

CallAuthenticate ==
    /\ CanCall
    /\ \E email \in Emails, password \in Passwords, jwtToken \in JwtTokens :
        cur' = Called(authenticate(
                   [serverUrl |-> ServerUrl, appName |-> AppName, email |-> email,
                    password |-> password, jwtToken |-> jwtToken]))
    /\ UNCHANGED Rest

CallCreateInitialUser ==
    /\ CanCall
    /\ \E email \in Emails, password \in Passwords, firstName \in FirstNames,
          lastName \in LastNames, userType \in UserTypes :
        cur' = Called(createInitialUser(
                   [serverUrl |-> ServerUrl, email |-> email, password |-> password,
                    firstName |-> firstName, lastName |-> lastName,
                    userType |-> userType]))
    /\ UNCHANGED Rest

CallCreateBroadcast ==
    /\ CanCall
    /\ \E broadcast \in Broadcasts, autoStart \in OptionalFlags,
          jwtToken \in JwtTokens :
        cur' = Called(createBroadcast(
                   [serverUrl |-> ServerUrl, appName |-> AppName,
                    broadcast |-> broadcast, autoStart |-> autoStart,
                    jwtToken |-> jwtToken]))
    /\ UNCHANGED Rest

CallFetchBroadcasts ==
    /\ CanCall
    /\ \E offset \in Offsets, size \in Sizes, type_by \in TypeBys,
          sort_by \in SortBys, order_by \in OrderBys, search \in SearchTerms,
          jwtToken \in JwtTokens :
        cur' = Called(fetchBroadcasts(
                   [serverUrl |-> ServerUrl, appName |-> AppName, offset |-> offset,
                    size |-> size, type_by |-> type_by, sort_by |-> sort_by,
                    order_by |-> order_by, search |-> search,
                    jwtToken |-> jwtToken]))
    /\ UNCHANGED Rest

CallGetBroadcast ==
    /\ CanCall
    /\ \E streamId \in StreamIds,
          jwtToken \in JwtTokens :
        cur' = Called(getBroadcast(
                   [serverUrl |-> ServerUrl, appName |-> AppName,
                    streamId |-> streamId,
                    jwtToken |-> jwtToken]))
    /\ UNCHANGED Rest

CallUpdateBroadcast ==
    /\ CanCall
    /\ \E streamId \in StreamIds, broadcast \in Broadcasts,
          jwtToken \in JwtTokens :
        cur' = Called(updateBroadcast(
                   [serverUrl |-> ServerUrl, appName |-> AppName,
                    streamId |-> streamId, broadcast |-> broadcast,
                    jwtToken |-> jwtToken]))
    /\ UNCHANGED Rest

CallDeleteBroadcast ==
    /\ CanCall
    /\ \E streamId \in StreamIds, deleteSubtracks \in OptionalFlags,
          jwtToken \in JwtTokens :
        cur' = Called(deleteBroadcast(
                   [serverUrl |-> ServerUrl, appName |-> AppName,
                    streamId |-> streamId, deleteSubtracks |-> deleteSubtracks,
                    jwtToken |-> jwtToken]))
    /\ UNCHANGED Rest

CallGetBroadcastCount ==
    /\ CanCall
    /\ \E jwtToken \in JwtTokens :
        cur' = Called(getBroadcastCount([serverUrl |-> ServerUrl, appName |-> AppName,
                    jwtToken |-> jwtToken]))
    /\ UNCHANGED Rest

CallGetSettings ==
    /\ CanCall
    /\ \E jwtToken \in JwtTokens :
        cur' = Called(getSettings(
                   [serverUrl |-> ServerUrl, appName |-> AppName,
                    jwtToken |-> jwtToken]))
    /\ UNCHANGED Rest

CallUpdateSettings ==
    /\ CanCall
    /\ \E settings \in SettingsBodies, jwtToken \in JwtTokens :
        cur' = Called(updateSettings(
                   [serverUrl |-> ServerUrl, appName |-> AppName,
                    settings |-> settings, jwtToken |-> jwtToken]))
    /\ UNCHANGED Rest

CallSetMp4RecordingEnabled ==
    /\ CanCall
    /\ \E enabled \in BOOLEAN, jwtToken \in JwtTokens :
        cur' = Called(setMp4RecordingEnabled(
                   [serverUrl |-> ServerUrl, appName |-> AppName,
                    enabled |-> enabled, jwtToken |-> jwtToken]))
    /\ UNCHANGED Rest

CallGetEncoderSettings ==
    /\ CanCall
    /\ \E jwtToken \in JwtTokens :
        cur' = Called(getEncoderSettings(
                   [serverUrl |-> ServerUrl, appName |-> AppName,
                    jwtToken |-> jwtToken]))
    /\ UNCHANGED Rest

CallGetAllEncoderBitrates ==
    /\ CanCall
    /\ \E jwtToken \in JwtTokens :
        cur' = Called(getAllEncoderBitrates(
                   [serverUrl |-> ServerUrl, appName |-> AppName,
                    jwtToken |-> jwtToken]))
    /\ UNCHANGED Rest

CallAddEncoderBitrate ==
    /\ CanCall
    /\ \E height \in Heights, videoBitrate \in VideoBitrates,
          audioBitrate \in AudioBitrates, forceEncode \in ForceEncodes,
          jwtToken \in JwtTokens :
        cur' = Called(addEncoderBitrate(
                   HelperArgs(height, videoBitrate, audioBitrate, forceEncode,
                              jwtToken)))
    /\ UNCHANGED Rest

CallRemoveEncoderBitrate ==
    /\ CanCall
    /\ \E height \in Heights,
          jwtToken \in JwtTokens :
        cur' = Called(removeEncoderBitrate(
                   [serverUrl |-> ServerUrl, appName |-> AppName, height |-> height,
                    jwtToken |-> jwtToken]))
    /\ UNCHANGED Rest

CallUpdateEncoderBitrate ==
    /\ CanCall
    /\ \E height \in Heights, videoBitrate \in VideoBitrates,
          audioBitrate \in AudioBitrates, forceEncode \in ForceEncodes,
          jwtToken \in JwtTokens :
        cur' = Called(updateEncoderBitrate(
                   HelperArgs(height, videoBitrate, audioBitrate, forceEncode,
                              jwtToken)))
    /\ UNCHANGED Rest

CallSetStreamRecording ==
    /\ CanCall
    /\ \E streamId \in StreamIds, enabled \in BOOLEAN, recordType \in RecordTypes,
          resolutionHeight \in ResolutionHeights, fileName \in FileNames,
          jwtToken \in JwtTokens :
        cur' = Called(setStreamRecording(
                   [serverUrl |-> ServerUrl, appName |-> AppName,
                    streamId |-> streamId, enabled |-> enabled,
                    recordType |-> recordType,
                    resolutionHeight |-> resolutionHeight, fileName |-> fileName,
                    jwtToken |-> jwtToken]))
    /\ UNCHANGED Rest

CallEnableRecording ==
    /\ CanCall
    /\ \E streamId \in StreamIds, recordType \in RecordTypes,
          resolutionHeight \in ResolutionHeights, fileName \in FileNames,
          jwtToken \in JwtTokens :
        cur' = Called(enableRecording(
                   [serverUrl |-> ServerUrl, appName |-> AppName,
                    streamId |-> streamId, recordType |-> recordType,
                    resolutionHeight |-> resolutionHeight, fileName |-> fileName,
                    jwtToken |-> jwtToken]))
    /\ UNCHANGED Rest

CallDisableRecording ==
    /\ CanCall
    /\ \E streamId \in StreamIds,
          jwtToken \in JwtTokens :
        cur' = Called(disableRecording(
                   [serverUrl |-> ServerUrl, appName |-> AppName,
                    streamId |-> streamId,
                    jwtToken |-> jwtToken]))
    /\ UNCHANGED Rest

CallGetVodList ==
    /\ CanCall
    /\ \E offset \in Offsets, size \in Sizes, sort_by \in SortBys,
          order_by \in OrderBys, streamId \in {Undefined} \cup StreamIds,
          search \in SearchTerms,
          jwtToken \in JwtTokens :
        cur' = Called(getVodList(
                   [serverUrl |-> ServerUrl, appName |-> AppName, offset |-> offset,
                    size |-> size, sort_by |-> sort_by, order_by |-> order_by,
                    streamId |-> streamId, search |-> search,
                    jwtToken |-> jwtToken]))
    /\ UNCHANGED Rest

CallGetVodCount ==
    /\ CanCall
    /\ \E jwtToken \in JwtTokens :
        cur' = Called(getVodCount([serverUrl |-> ServerUrl, appName |-> AppName,
                    jwtToken |-> jwtToken]))
    /\ UNCHANGED Rest

CallGetVodCountBySearch ==
    /\ CanCall
    /\ \E search \in SearchTerms \ {Undefined},
          jwtToken \in JwtTokens :
        cur' = Called(getVodCountBySearch(
                   [serverUrl |-> ServerUrl, appName |-> AppName, search |-> search,
                    jwtToken |-> jwtToken]))
    /\ UNCHANGED Rest

CallGetVod ==
    /\ CanCall
    /\ \E vodId \in VodIds,
          jwtToken \in JwtTokens :
        cur' = Called(getVod(
                   [serverUrl |-> ServerUrl, appName |-> AppName, vodId |-> vodId,
                    jwtToken |-> jwtToken]))
    /\ UNCHANGED Rest

CallDeleteVod ==
    /\ CanCall
    /\ \E vodId \in VodIds,
          jwtToken \in JwtTokens :
        cur' = Called(deleteVod(
                   [serverUrl |-> ServerUrl, appName |-> AppName, vodId |-> vodId,
                    jwtToken |-> jwtToken]))
    /\ UNCHANGED Rest

CallDeleteVods ==
    /\ CanCall
    /\ \E vodIds \in VodIdLists,
          jwtToken \in JwtTokens :
        cur' = Called(deleteVods(
                   [serverUrl |-> ServerUrl, appName |-> AppName, vodIds |-> vodIds,
                    jwtToken |-> jwtToken]))
    /\ UNCHANGED Rest

CallUnlinkVodDirectory ==
    /\ CanCall
    /\ \E directory \in Directories,
          jwtToken \in JwtTokens :
        cur' = Called(unlinkVodDirectory(
                   [serverUrl |-> ServerUrl, appName |-> AppName,
                    directory |-> directory,
                    jwtToken |-> jwtToken]))
    /\ UNCHANGED Rest

CallUploadVod ==
    /\ CanCall
    /\ \E file \in Files, name \in FileNames \ {Undefined}, metadata \in Metadatas,
          jwtToken \in JwtTokens :
        cur' = Called(uploadVod(
                   [serverUrl |-> ServerUrl, appName |-> AppName, file |-> file,
                    name |-> name, metadata |-> metadata,
                    jwtToken |-> jwtToken]))
    /\ UNCHANGED Rest

CallImportVodDirectory ==
    /\ CanCall
    /\ \E directory \in Directories,
          jwtToken \in JwtTokens :
        cur' = Called(importVodDirectory(
                   [serverUrl |-> ServerUrl, appName |-> AppName,
                    directory |-> directory,
                    jwtToken |-> jwtToken]))
    /\ UNCHANGED Rest

CallImportVodsToStalker ==
    /\ CanCall
    /\ \E jwtToken \in JwtTokens :
        cur' = Called(importVodsToStalker([serverUrl |-> ServerUrl, appName |-> AppName,
                    jwtToken |-> jwtToken]))
    /\ UNCHANGED Rest

\* The server answers the request the call awaits, or the fetch rejects,
\* and the call runs on to its next await or to its end.
Settle ==
    /\ cur.call.pc = "awaiting"
    /\ \E resp \in Responses :
        cur' = [cur EXCEPT !.call = Resume(cur.call, resp),
                           !.responses = Append(cur.responses, resp)]
    /\ UNCHANGED Rest

\* The caller takes the value or the error of the call: no call is under way.
Handled ==
    /\ cur.call.pc = "done"
    /\ cur' = NotCalled
    /\ UNCHANGED Rest

\* The answers do not depend on what the server holds here.
InitCalls ==
    /\ server = ("mp4MuxingEnabled" :> TRUE)
    /\ calls = [c \in Clients |-> Tracked(Idle)]
    /\ lastWriter = NoTab
    /\ started = 0
    /\ cur = NotCalled
    /\ page = Constructed("/")

NextCalls ==
    \/ CallAuthenticate
    \/ CallCreateInitialUser
    \/ CallCreateBroadcast
    \/ CallFetchBroadcasts
    \/ CallGetBroadcast
    \/ CallUpdateBroadcast
    \/ CallDeleteBroadcast
    \/ CallGetBroadcastCount
    \/ CallGetSettings
    \/ CallUpdateSettings
    \/ CallSetMp4RecordingEnabled
    \/ CallGetEncoderSettings
    \/ CallGetAllEncoderBitrates
    \/ CallAddEncoderBitrate
    \/ CallRemoveEncoderBitrate
    \/ CallUpdateEncoderBitrate
    \/ CallSetStreamRecording
    \/ CallEnableRecording
    \/ CallDisableRecording
    \/ CallGetVodList
    \/ CallGetVodCount
    \/ CallGetVodCountBySearch
    \/ CallGetVod
    \/ CallDeleteVod
    \/ CallDeleteVods
    \/ CallUnlinkVodDirectory
    \/ CallUploadVod
    \/ CallImportVodDirectory
    \/ CallImportVodsToStalker
    \/ Settle
    \/ Handled

SpecCalls == InitCalls /\ [][NextCalls]_vars

(***************************************************************************)
(* Properties of the bitrate helpers under SpecSettings.                   *)
(***************************************************************************)
Helpers == {"addEncoderBitrate", "removeEncoderBitrate", "updateEncoderBitrate"}

ServerList == EncoderList(server)

\* the profiles of `list` at `height`, and the rest of the list in order
At(list, height) == {i \in DOMAIN list : list[i].height = height}

Others(list, height) ==
    LET NotAt(e) == e.height # height IN SelectSeq(list, NotAt)

ArgsProfile(args) ==
    Profile(args.height, args.videoBitrate, args.audioBitrate, args.forceEncode)

\* `list` holds exactly one profile at the height of `args`: the one of `args`
OneProfile(list, args) ==
    /\ Cardinality(At(list, args.height)) = 1
    /\ \A i \in At(list, args.height) : list[i] = ArgsProfile(args)

\* tab c's call has ended and the server applied its write
Wrote(c, method) ==
    /\ calls[c].call.method = method
    /\ calls[c].call.pc = "done"
    /\ calls[c].applied

\* tab a's write was applied between tab b's read and tab b's write, and
\* tab b's write is the last one the server applied
Interleaved(a, b) ==
    /\ a # b
    /\ a \in calls[b].staleBy
    /\ lastWriter = b

\* C1: two addEncoderBitrate calls for different heights that read the same
\* settings and whose writes were both applied, the second write after the
\* first: the server's list is the snapshot with only the last writer's
\* profile put in; the other call's profile is not on the server (unless the
\* snapshot held that very profile already), and neither call reports an
\* error.
C1_LostUpdate ==
    \A a, b \in Clients :
        LET ca == calls[a].call
            cb == calls[b].call
            snapshot == EncoderList(cb.settings)
        IN  (/\ Wrote(a, "addEncoderBitrate") /\ Wrote(b, "addEncoderBitrate")
             /\ Interleaved(a, b)
             /\ ca.args.height # cb.args.height
             /\ ca.settings = cb.settings)
            => /\ OneProfile(ServerList, cb.args)
               /\ Others(ServerList, cb.args.height) = Others(snapshot, cb.args.height)
               /\ (\E i \in DOMAIN ServerList : ServerList[i] = ArgsProfile(ca.args))
                      => \E j \in DOMAIN snapshot : snapshot[j] = ArgsProfile(ca.args)
               /\ ca.result.kind = "ok" /\ cb.result.kind = "ok"

\* Both adds are for heights the snapshot did not hold: the first writer's
\* profile was on the server and is gone.
C1_Witness ==
    \E a, b \in Clients :
        /\ Wrote(a, "addEncoderBitrate") /\ Wrote(b, "addEncoderBitrate")
        /\ Interleaved(a, b)
        /\ calls[a].call.args.height # calls[b].call.args.height
        /\ calls[a].call.settings = calls[b].call.settings
        /\ EncoderList(calls[a].call.settings) = <<>>
        /\ ServerList = <<ArgsProfile(calls[b].call.args)>>

HasRead(c) == calls[c].call.settings # NoValue

NotFound(height) ==
    Err("Error", "Encoder bitrate profile for height %s not found", 0,
        ToString(height))

\* C3: an updateEncoderBitrate(h) that read settings with no profile of
\* height h has ended with the "not found" error for h and has sent no
\* write request: the read is its only request, and the server applied
\* nothing for it.
C3_UpdateNotFound ==
    \A c \in Clients :
        LET call == calls[c].call
        IN  (/\ call.method = "updateEncoderBitrate"
             /\ HasRead(c)
             /\ call.args.height \notin HeightsOf(EncoderList(call.settings)))
            => /\ call.pc = "done"
               /\ call.result.kind = "error"
               /\ call.result.error = NotFound(call.args.height)
               /\ Len(call.requests) = 1
               /\ call.requests[1].method = "GET"
               /\ ~calls[c].applied

\* An update for a height that is missing while another profile is there.
C3_Witness ==
    \E c \in Clients :
        /\ calls[c].call.method = "updateEncoderBitrate"
        /\ HasRead(c)
        /\ calls[c].call.args.height \notin HeightsOf(EncoderList(calls[c].call.settings))
        /\ EncoderList(calls[c].call.settings) # <<>>
        /\ calls[c].call.pc = "done"
        /\ server = calls[c].call.settings

\* C4: a removeEncoderBitrate(h) that read settings with no profile of height
\* h raises no error of its own: it sends its write, and it ends with an
\* error only when that write was not applied.  When the write is applied and
\* no other write fell between its read and its write, the server's profile
\* list is the list that was read (a missing list reads as the empty one)
\* and every other settings key has the value that was read.
C4_RemoveAbsent ==
    \A c \in Clients :
        LET call == calls[c].call
        IN  (/\ call.method = "removeEncoderBitrate"
             /\ call.pc = "done"
             /\ HasRead(c)
             /\ call.args.height \notin HeightsOf(EncoderList(call.settings)))
            => /\ Len(call.requests) = 2
               /\ (call.result.kind = "ok") = calls[c].applied
               /\ (calls[c].applied /\ calls[c].staleBy = {} /\ lastWriter = c)
                     => /\ ServerList = EncoderList(call.settings)
                        /\ \A k \in DOMAIN call.settings \ {"encoderSettings"} :
                              Has(server, k) /\ server[k] = call.settings[k]

\* A remove of an absent height from a list that holds another profile,
\* ended without error.
C4_Witness ==
    \E c \in Clients :
        /\ Wrote(c, "removeEncoderBitrate")
        /\ calls[c].call.args.height \notin HeightsOf(EncoderList(calls[c].call.settings))
        /\ calls[c].staleBy = {} /\ lastWriter = c
        /\ calls[c].call.result.kind = "ok"
        /\ Len(ServerList) = 1

\* C25: a removeEncoderBitrate whose height is on no profile, neither in the
\* settings it read nor in what another tab added meanwhile, leaves the
\* server's list as it was just before its write: the profile another tab's
\* add put there between the remove's read and its write is still there.
C25_RemoveAbsentKeepsList ==
    \A a, b \in Clients :
        LET ca == calls[a].call
            cb == calls[b].call
        IN  (/\ Wrote(b, "removeEncoderBitrate")
             /\ cb.args.height \notin HeightsOf(EncoderList(cb.settings))
             /\ Wrote(a, "addEncoderBitrate")
             /\ ca.args.height # cb.args.height
             /\ Interleaved(a, b))
            => OneProfile(ServerList, ca.args)

\* the list a helper's write must carry, given the list it read
Mutated(call, written, read) ==
    /\ Others(written, call.args.height) = Others(read, call.args.height)
    /\ IF call.method = "removeEncoderBitrate"
       THEN At(written, call.args.height) = {}
       ELSE OneProfile(written, call.args)

C6_UniqueHeights ==
    /\ DistinctHeights(ServerList)
    /\ \A c \in Clients :
          Len(calls[c].call.requests) = 2
             => DistinctHeights(LastRequest(calls[c].call).body["encoderSettings"])

\* Two tabs' writes interleaved, one of them an add of a height the server
\* already held, and the server holds two profiles.
C6_Witness ==
    \E a, b \in Clients :
        /\ Interleaved(a, b)
        /\ calls[a].applied /\ calls[b].applied
        /\ calls[b].call.method = "addEncoderBitrate"
        /\ calls[b].call.args.height \in HeightsOf(EncoderList(calls[b].call.settings))
        /\ calls[a].call.method \in {"updateEncoderBitrate", "removeEncoderBitrate"}
        /\ Len(ServerList) = 2

(***************************************************************************)
(* SpecRepeat: a page calls methods one after the other and calls some of  *)
(* them again with the same arguments, other calls in between.             *)
(***************************************************************************)
RepeatedCalls ==
    UNION {
        {[method |-> "getSettings",
          args |-> [serverUrl |-> ServerUrl, appName |-> AppName,
                    jwtToken |-> jwtToken]],
         [method |-> "updateSettings",
          args |-> [serverUrl |-> ServerUrl, appName |-> AppName,
                    settings |-> ("mp4MuxingEnabled" :> FALSE),
                    jwtToken |-> jwtToken]],
         [method |-> "addEncoderBitrate",
          args |-> HelperArgs(720, 3000, 128, FALSE, jwtToken)],
         [method |-> "getBroadcast",
          args |-> [serverUrl |-> ServerUrl, appName |-> AppName,
                    streamId |-> "stream1", jwtToken |-> jwtToken]],
         [method |-> "uploadVod",
          args |-> [serverUrl |-> ServerUrl, appName |-> AppName,
                    file |-> "clip.mp4", name |-> "take1", metadata |-> Undefined,
                    jwtToken |-> jwtToken]]}
        : jwtToken \in JwtTokens}

\* The page calls a method, right after the call before.
PageCall ==
    /\ cur.call.pc \in {"idle", "done"}
    /\ \E called \in RepeatedCalls :
        cur' = [call |-> Invoke(called.method, called.args),
                responses |-> <<>>,
                first |-> IF cur.first.call.pc = "done" /\ cur.first.since < MaxSince
                          THEN [cur.first EXCEPT !.since = @ + 1]
                          ELSE cur.first]
    /\ UNCHANGED Rest

\* The call that has ended is the one to compare later calls with.
Remember ==
    /\ cur.call.pc = "done"
    /\ cur.first = NoEarlier
    /\ cur' = [cur EXCEPT !.first = [call |-> cur.call, responses |-> cur.responses,
                                     since |-> 0]]
    /\ UNCHANGED Rest

\* the answers of SpecRepeat: accepted, refused, unparsable, none
RepeatResponses ==
    {Response(200, TRUE, ("encoderSettings" :> <<Profile(480, 1500, 128, FALSE)>>)
                             @@ ("mp4MuxingEnabled" :> TRUE)),
     Response(500, TRUE, "message" :> "denied"),
     Response(200, FALSE, EmptyObject),
     NetworkFailure}

\* Settle, with the answers of SpecRepeat
SettleRepeat ==
    /\ cur.call.pc = "awaiting"
    /\ \E resp \in RepeatResponses :
        cur' = [cur EXCEPT !.call = Resume(cur.call, resp),
                           !.responses = Append(cur.responses, resp)]
    /\ UNCHANGED Rest

NextRepeat ==
    \/ PageCall
    \/ Remember
    \/ SettleRepeat

SpecRepeat == InitCalls /\ [][NextRepeat]_vars

(***************************************************************************)
(* Properties of SpecCalls                                                 *)
(***************************************************************************)
Finished == cur.call.pc = "done"

LastResponse == cur.responses[Len(cur.responses)]

\* no 2xx, no answer at all, or a body that does not parse
Failed(resp) == resp.net \/ ~Ok(resp) \/ ~resp.json

ListReaders == {"getEncoderSettings", "getAllEncoderBitrates"}

\* C7 as stated: a call that returns a value returns the parsed JSON body of
\* a 2xx response, and no call returns a value on a response that is
\* non-2xx, missing, or not valid JSON.
C7_ReturnsParsedBody ==
    Finished =>
        /\ cur.call.result.kind \in {"ok", "error"}
        /\ Failed(LastResponse) => cur.call.result.kind = "error"
        /\ cur.call.result.kind = "ok"
              => /\ ~Failed(LastResponse)
                 /\ cur.call.result.value = LastResponse.body

\* C7, amended: every call ends by returning a value or by throwing; it
\* throws, and returns nothing, when a response is non-2xx, when the fetch
\* rejects and when the body is not valid JSON, and that response is the last
\* one the call takes; a call that returns, returns the parsed JSON body of
\* its last 2xx response, except getEncoderSettings and
\* getAllEncoderBitrates, which return that body's encoderSettings list, or
\* an empty list when the body has none.
C7_ValueOnlyFromParsedBody ==
    /\ \A i \in 1..Len(cur.responses) :
          Failed(cur.responses[i])
             => /\ i = Len(cur.responses)
                /\ Finished
                /\ cur.call.result.kind = "error"
                /\ cur.call.result.value = NoValue
    /\ Finished =>
          /\ cur.call.result.kind \in {"ok", "error"}
          /\ cur.call.result.kind = "ok"
                => /\ ~Failed(LastResponse)
                   /\ cur.call.result.error = NoError
                   /\ cur.call.result.value =
                         IF cur.call.method \in ListReaders
                         THEN JsonArray(EncoderList(LastResponse.body))
                         ELSE LastResponse.body

\* getEncoderSettings has returned the empty list on a 2xx body without
\* encoderSettings.
C7_Witness ==
    /\ Finished
    /\ cur.call.method = "getEncoderSettings"
    /\ Ok(LastResponse) /\ LastResponse.json
    /\ ~Has(LastResponse.body, "encoderSettings")
    /\ cur.call.result = Returned(JsonArray(<<>>))

SingleGets == {"getBroadcast", "getVod"}

RequestedId == IF cur.call.method = "getBroadcast" THEN cur.call.args.streamId
               ELSE cur.call.args.vodId

\* what the same call makes of another response
Instead(resp) ==
    Resume([cur.call EXCEPT !.pc = "awaiting", !.result = NoResult], resp).result

\* C8: getBroadcast and getVod on a 404 throw a not-found error that names
\* the requested id; on every other non-2xx status they throw an error that
\* carries the status, and the two errors differ.
C8_NotFoundIsDistinct ==
    (Finished /\ cur.call.method \in SingleGets
        /\ ~LastResponse.net /\ ~Ok(LastResponse))
    => /\ cur.call.result.kind = "error"
       /\ cur.call.result.value = NoValue
       /\ IF LastResponse.status = 404
          THEN /\ cur.call.result.error =
                     Err("Error",
                         IF cur.call.method = "getBroadcast"
                         THEN "Broadcast not found: %s" ELSE "VOD not found: %s",
                         0, RequestedId)
               /\ \A status \in Statuses :
                     (status # 404 /\ ~Ok(Response(status, FALSE, EmptyObject)))
                        => \A body \in JsonBodies :
                              Instead(Response(status, TRUE, body)).error
                                 # cur.call.result.error
          ELSE cur.call.result.error =
                   Err("Error",
                       IF cur.call.method = "getBroadcast"
                       THEN "Failed to get broadcast (HTTP %s)"
                       ELSE "Failed to get VOD (HTTP %s)",
                       LastResponse.status, "")

\* getBroadcast has been answered 404.
C8_Witness ==
    /\ Finished
    /\ cur.call.method = "getBroadcast"
    /\ ~LastResponse.net
    /\ LastResponse.status = 404
    /\ cur.call.result.error.detail = cur.call.args.streamId

MessageReaders == {"createBroadcast", "updateSettings", "createInitialUser"}

GenericText ==
    CASE cur.call.method = "createBroadcast" -> "Failed to create broadcast (HTTP %s)"
      [] cur.call.method = "updateSettings" -> "Failed to update settings (HTTP %s)"
      [] OTHER -> "Failed to create initial user (HTTP %s)"

\* C9 as stated: createBroadcast, updateSettings and createInitialUser on a
\* non-2xx response throw an error with the server's message when the body
\* has one, else the generic error with the HTTP status, and never the error
\* of parsing the body.
C9_MessageOrStatus ==
    (Finished /\ cur.call.method \in MessageReaders
        /\ ~LastResponse.net /\ ~Ok(LastResponse))
    => /\ cur.call.result.kind = "error"
       /\ cur.call.result.error.name # JsonRejected.name
       /\ cur.call.result.error =
             IF LastResponse.json /\ Has(LastResponse.body, "message")
             THEN Err("Error", LastResponse.body["message"], 0, "")
             ELSE Err("Error", GenericText, LastResponse.status, "")

\* C10: authenticate sends one POST to {serverUrl}/rest/v2/users/authenticate
\* with the body {email, password}; on a non-2xx response it throws the fixed
\* error without reading the body, on a 2xx response it returns the parsed
\* JSON body.
C10_Authenticate ==
    cur.call.method = "authenticate"
    => /\ Len(cur.call.requests) = 1
       /\ Len(cur.responses) <= 1
       /\ cur.call.requests[1].method = "POST"
       /\ cur.call.requests[1].url =
             cur.call.args.serverUrl \o "/rest/v2/users/authenticate"
       /\ cur.call.requests[1].query = <<>>
       /\ cur.call.requests[1].body =
             [email |-> cur.call.args.email, password |-> cur.call.args.password]
       /\ (Finished /\ ~LastResponse.net /\ ~Ok(LastResponse))
             => cur.call.result =
                   Thrown(Err("Error", "Failed to authenticate", 0, ""), FALSE)
       /\ (Finished /\ ~LastResponse.net /\ Ok(LastResponse) /\ LastResponse.json)
             => cur.call.result = Returned(LastResponse.body)

\* authenticate has been answered a non-2xx status with a JSON message.
C10_Witness ==
    /\ Finished
    /\ cur.call.method = "authenticate"
    /\ ~LastResponse.net /\ ~Ok(LastResponse)
    /\ LastResponse.json /\ Has(LastResponse.body, "message")
    /\ ~cur.call.result.bodyRead

SettingsUrl == cur.call.args.serverUrl \o "/rest/v2/applications/settings/"
                   \o cur.call.args.appName

\* C11: a call of a single-endpoint method sends exactly one request whatever
\* the answer is; a call of an encoder bitrate helper sends the settings read
\* and then at most one settings write; no call sends a request after the
\* answer to its last one made it end, and none sends a request twice.
C11_NoRetries ==
    cur.call.method # ""
    => /\ Len(cur.responses) <= Len(cur.call.requests)
       /\ Finished => Len(cur.responses) = Len(cur.call.requests)
       /\ IF cur.call.method \in Helpers
          THEN /\ Len(cur.call.requests) \in {1, 2}
               /\ cur.call.requests[1].method = "GET"
               /\ cur.call.requests[1].url = SettingsUrl
               /\ Len(cur.call.requests) = 2
                     => /\ cur.call.requests[2].method = "POST"
                        /\ cur.call.requests[2].url = SettingsUrl
                        /\ ~Failed(cur.responses[1])
          ELSE Len(cur.call.requests) = 1

\* A helper's write was refused and the helper has ended with two requests.
C11_Witness ==
    /\ Finished
    /\ cur.call.method = "removeEncoderBitrate"
    /\ Len(cur.call.requests) = 2
    /\ ~LastResponse.net /\ ~Ok(LastResponse)
    /\ cur.call.result.kind = "error"

\* what getSettings throws for a response that is no parsed 2xx body
ReadError(resp) ==
    IF resp.net THEN FetchRejected
    ELSE IF ~Ok(resp)
    THEN Err("Error", "Failed to get application settings (HTTP %s)", resp.status, "")
    ELSE JsonRejected

\* C26: a helper whose settings read failed (no response, a status outside
\* 2xx, or a body that does not parse) has ended with that one request, the
\* read; it has sent no write, and its caller gets the error of the read.
C26_FailedReadSendsNoWrite ==
    (/\ cur.call.method \in Helpers
     /\ Len(cur.responses) >= 1
     /\ Failed(cur.responses[1]))
    => /\ cur.call.pc = "done"
       /\ Len(cur.responses) = 1
       /\ Len(cur.call.requests) = 1
       /\ cur.call.requests[1].method = "GET"
       /\ cur.call.result.kind = "error"
       /\ cur.call.result.error = ReadError(cur.responses[1])

\* an updateEncoderBitrate whose read was answered 200 with a body that does
\* not parse has ended with the error of response.json()
C26_Witness ==
    /\ cur.call.method = "updateEncoderBitrate"
    /\ Len(cur.responses) = 1
    /\ Ok(cur.responses[1]) /\ ~cur.responses[1].json
    /\ cur.call.pc = "done"
    /\ cur.call.result.error = JsonRejected

\* the methods that read or write the application settings
SettingsCallers ==
    Helpers \cup {"getSettings", "updateSettings", "setMp4RecordingEnabled",
                  "getEncoderSettings", "getAllEncoderBitrates"}

C13_AlwaysJsonContentType ==
    \A i \in 1..Len(cur.call.requests) :
        /\ Has(cur.call.requests[i].headers, "Content-Type")
        /\ cur.call.requests[i].headers["Content-Type"] = "application/json"

\* C13, amended: every request of every method but uploadVod carries the
\* header Content-Type: application/json; uploadVod sends a multipart form
\* and sets no header of its own.
C13_JsonContentTypeButUpload ==
    \A i \in 1..Len(cur.call.requests) :
        IF cur.call.method = "uploadVod"
        THEN cur.call.requests[i].headers = EmptyObject
        ELSE /\ Has(cur.call.requests[i].headers, "Content-Type")
             /\ cur.call.requests[i].headers["Content-Type"] = "application/json"

\* uploadVod has sent its form.
C13_Witness ==
    /\ cur.call.method = "uploadVod"
    /\ Len(cur.call.requests) = 1
    /\ Has(cur.call.requests[1].body, "file")
    /\ cur.call.args.jwtToken = "jwt-1"

(***************************************************************************)
(* Properties of SpecRepeat                                                *)
(***************************************************************************)
SameCall ==
    /\ cur.first.call.pc = "done"
    /\ cur.call.method = cur.first.call.method
    /\ cur.call.args = cur.first.call.args

\* the first n answers of the two calls are equal
SameAnswers(n) ==
    /\ Len(cur.responses) >= n
    /\ Len(cur.first.responses) >= n
    /\ \A i \in 1..n : cur.responses[i] = cur.first.responses[i]

TheRequest == cur.call.requests[1]

\* the parameters of the query, as a set
QueryPairs == {TheRequest.query[i] : i \in 1..Len(TheRequest.query)}

\* an optional string argument the caller gave a value
Supplied(value) == value \notin {Undefined, ""}

BroadcastFilters == {"type_by", "sort_by", "order_by", "search"}

\* C15: fetchBroadcasts sends GET to
\* {serverUrl}/{appName}/rest/v2/broadcasts/list/{offset}/{size}; its query
\* holds one parameter for each of type_by, sort_by, order_by and search that
\* the caller supplied (a non-empty string), with the supplied value, and no
\* other parameter.
C15_ListBroadcastsRequest ==
    cur.call.method = "fetchBroadcasts"
    => /\ Len(cur.call.requests) = 1
       /\ TheRequest.method = "GET"
       /\ TheRequest.body = NoBody
       /\ TheRequest.url =
             cur.call.args.serverUrl \o "/" \o cur.call.args.appName
                 \o "/rest/v2/broadcasts/list/" \o ToString(cur.call.args.offset)
                 \o "/" \o ToString(cur.call.args.size)
       /\ QueryPairs = {<<k, cur.call.args[k]>> :
                           k \in {f \in BroadcastFilters : Supplied(cur.call.args[f])}}
       /\ Len(TheRequest.query) = Cardinality(QueryPairs)

\* fetchBroadcasts with size 50, an offset, one filter given and the
\* others left out or empty.
C15_Witness ==
    /\ cur.call.method = "fetchBroadcasts"
    /\ cur.call.args.size = 50
    /\ cur.call.args.offset = 20
    /\ cur.call.args.type_by = "liveStream"
    /\ cur.call.args.sort_by = Undefined
    /\ cur.call.args.search = ""
    /\ TheRequest.query = <<<<"type_by", "liveStream">>>>

\* a query parameter that is there under a condition
Opt(present, key, value) == IF present THEN <<<<key, value>>>> ELSE <<>>

RecordingUrl(enabled) ==
    cur.call.args.serverUrl \o "/" \o cur.call.args.appName
        \o "/rest/v2/broadcasts/" \o cur.call.args.streamId \o "/recording/"
        \o (IF enabled THEN "true" ELSE "false")

Recorders == {"setStreamRecording", "enableRecording", "disableRecording"}

\* C16 as stated: setStreamRecording sends PUT to
\* .../{streamId}/recording/true or .../recording/false; the query holds
\* recordType, then resolutionHeight, then fileName, each when the caller
\* supplied it, recordType being mp4 when the caller supplied none.
C16_RecordingRequestDefaulted ==
    cur.call.method = "setStreamRecording"
    => /\ TheRequest.method = "PUT"
       /\ TheRequest.url = RecordingUrl(cur.call.args.enabled)
       /\ TheRequest.query =
             Opt(TRUE, "recordType",
                 IF Supplied(cur.call.args.recordType)
                 THEN cur.call.args.recordType ELSE "mp4")
             \o Opt(cur.call.args.resolutionHeight # 0, "resolutionHeight",
                    ToString(cur.call.args.resolutionHeight))
             \o Opt(Supplied(cur.call.args.fileName), "fileName",
                    cur.call.args.fileName)

\* C16, amended: setStreamRecording, enableRecording and disableRecording
\* send one PUT to .../{streamId}/recording/true or .../recording/false (true
\* for enableRecording, false for disableRecording); the query holds
\* recordType, then resolutionHeight, then fileName.  resolutionHeight and
\* fileName are there when the caller supplied them (disableRecording
\* supplies none).  recordType is the caller's value; it is mp4 when the
\* caller left it out, and for disableRecording; when the caller passed the
\* empty string, enableRecording sends mp4 and setStreamRecording sends no
\* recordType.  For (s1, true, mp4, 720) the request is
\* PUT .../s1/recording/true?recordType=mp4&resolutionHeight=720.
C16_RecordingRequest ==
    cur.call.method \in Recorders
    => LET args == cur.call.args
           direct == cur.call.method = "setStreamRecording"
           disable == cur.call.method = "disableRecording"
           enabled == IF direct THEN args.enabled ELSE ~disable
           recordType ==
               IF disable \/ args.recordType = Undefined THEN "mp4"
               ELSE IF args.recordType = "" /\ ~direct THEN "mp4"
               ELSE args.recordType
       IN  /\ Len(cur.call.requests) = 1
           /\ TheRequest.method = "PUT"
           /\ TheRequest.body = NoBody
           /\ TheRequest.url = RecordingUrl(enabled)
           /\ TheRequest.query =
                 Opt(recordType # "", "recordType", recordType)
                 \o (IF disable THEN <<>>
                     ELSE Opt(args.resolutionHeight # 0, "resolutionHeight",
                              ToString(args.resolutionHeight))
                          \o Opt(Supplied(args.fileName), "fileName", args.fileName))
           /\ (direct /\ args.streamId = "s1" /\ args.enabled
                  /\ args.recordType = "mp4" /\ args.resolutionHeight = 720
                  /\ args.fileName = Undefined)
                 => UrlString(TheRequest) =
                       ServerUrl \o "/" \o AppName
                           \o "/rest/v2/broadcasts/s1/recording/true"
                           \o "?recordType=mp4&resolutionHeight=720"

\* setStreamRecording called with a height and a file name, and with the
\* empty string as recordType.
C16_Witness ==
    /\ cur.call.method = "setStreamRecording"
    /\ cur.call.args.recordType = ""
    /\ cur.call.args.resolutionHeight = 720
    /\ cur.call.args.fileName = "take1"
    /\ Len(TheRequest.query) = 2
    /\ TheRequest.query[1][1] = "resolutionHeight"

\* C17: createBroadcast sends POST to
\* {serverUrl}/{appName}/rest/v2/broadcasts/create with the single query
\* parameter autoStart=true when autoStart is true and autoStart=false when
\* it is false or left out; the body is the broadcast object of the caller.
C17_CreateBroadcastRequest ==
    cur.call.method = "createBroadcast"
    => /\ Len(cur.call.requests) = 1
       /\ TheRequest.method = "POST"
       /\ TheRequest.url =
             cur.call.args.serverUrl \o "/" \o cur.call.args.appName
                 \o "/rest/v2/broadcasts/create"
       /\ TheRequest.query =
             <<<<"autoStart",
                 IF cur.call.args.autoStart = <<TRUE>> THEN "true" ELSE "false">>>>
       /\ UrlString(TheRequest) =
             TheRequest.url \o (IF cur.call.args.autoStart = <<TRUE>>
                                THEN "?autoStart=true" ELSE "?autoStart=false")
       /\ TheRequest.body = cur.call.args.broadcast

\* createBroadcast called without autoStart, with a broadcast that has a name.
C17_Witness ==
    /\ cur.call.method = "createBroadcast"
    /\ cur.call.args.autoStart = <<>>
    /\ cur.call.args.broadcast = [name |-> "show"]
    /\ TheRequest.query = <<<<"autoStart", "false">>>>

\* C18: deleteBroadcast sends DELETE to
\* {serverUrl}/{appName}/rest/v2/broadcasts/{streamId}, without a body; the
\* query is deleteSubtracks=true when deleteSubtracks is true and empty when
\* it is false or left out.
C18_DeleteBroadcastRequest ==
    cur.call.method = "deleteBroadcast"
    => /\ Len(cur.call.requests) = 1
       /\ TheRequest.method = "DELETE"
       /\ TheRequest.body = NoBody
       /\ TheRequest.url =
             cur.call.args.serverUrl \o "/" \o cur.call.args.appName
                 \o "/rest/v2/broadcasts/" \o cur.call.args.streamId
       /\ TheRequest.query =
             IF cur.call.args.deleteSubtracks = <<TRUE>>
             THEN <<<<"deleteSubtracks", "true">>>> ELSE <<>>

\* deleteBroadcast called with deleteSubtracks false.
C18_Witness ==
    /\ cur.call.method = "deleteBroadcast"
    /\ cur.call.args.deleteSubtracks = <<FALSE>>
    /\ TheRequest.query = <<>>
    /\ UrlString(TheRequest) = TheRequest.url

(***************************************************************************)
(* SpecLists: one helper call at a time against a server whose list is any *)
(* list of up to MaxListLen profiles, heights repeated or not: the page    *)
(* calls a helper, the server answers its read with the list it holds (or  *)
(* with one of RepeatResponses), the helper computes and writes its list.  *)
(***************************************************************************)
MaxListLen == 3

ListHeights == {480, 720, 1080}

ListProfiles == {Profile(h, v, 128, FALSE) : h \in ListHeights, v \in {1500, 2500}}

ListsRead == SeqsUpTo(ListProfiles, MaxListLen)

ListCall ==
    /\ CanCall
    /\ \E method \in Helpers, height \in ListHeights :
        cur' = Called(Invoke(method,
                   IF method = "removeEncoderBitrate"
                   THEN [serverUrl |-> ServerUrl, appName |-> AppName,
                         height |-> height, jwtToken |-> PageToken]
                   ELSE HelperArgs(height, 3000, 128, TRUE, PageToken)))
    /\ UNCHANGED Rest

ListRead ==
    /\ cur.call.pc = "awaiting"
    /\ Len(cur.call.requests) = 1
    /\ \E list \in ListsRead :
        cur' = [cur EXCEPT
                  !.call = Resume(cur.call,
                               Response(200, TRUE, ("encoderSettings" :> list)
                                                   @@ ("mp4MuxingEnabled" :> TRUE))),
                  !.responses = Append(cur.responses,
                               Response(200, TRUE, ("encoderSettings" :> list)
                                                   @@ ("mp4MuxingEnabled" :> TRUE)))]
    /\ UNCHANGED Rest

NextLists ==
    \/ ListCall
    \/ ListRead
    \/ SettleRepeat
    \/ Handled

SpecLists == InitCalls /\ [][NextLists]_vars

(***************************************************************************)
(* Properties of SpecLists                                                 *)
(***************************************************************************)
\* the helper of `cur` has read a list and sent its write
Wrote2 == cur.call.method \in Helpers /\ Len(cur.call.requests) >= 2

\* the list the helper read, and the list it wrote
ListBefore == EncoderList(cur.responses[1].body)

ListAfter == cur.call.requests[2].body["encoderSettings"]

\* the first position of `list` at `height`
FirstAt(list, height) == CHOOSE i \in At(list, height) : \A j \in At(list, height) : i <= j

\* `after` is `before` with the profile at position k replaced by p
ReplacedAt(before, after, k, p) ==
    /\ Len(after) = Len(before)
    /\ after[k] = p
    /\ \A i \in DOMAIN before : i # k => after[i] = before[i]

\* C19: the encoder helpers change only the profile they name and keep the
\* list order: an add for a height already in the list it read writes that
\* list with the (first) profile of that height replaced at its position and
\* every other position unchanged; an add for a new height writes the list
\* with the profile appended at the end; an update writes the list with the
\* profile replaced in place; a remove writes the profiles of the other
\* heights, all of them and in their order.
C19_HelpersKeepOrder ==
    Wrote2 =>
        LET height == cur.call.args.height
        IN  CASE cur.call.method = "addEncoderBitrate" ->
                   IF At(ListBefore, height) # {}
                   THEN ReplacedAt(ListBefore, ListAfter,
                                   FirstAt(ListBefore, height),
                                   ArgsProfile(cur.call.args))
                   ELSE ListAfter = Append(ListBefore, ArgsProfile(cur.call.args))
              [] cur.call.method = "updateEncoderBitrate" ->
                   /\ At(ListBefore, height) # {}
                   /\ ReplacedAt(ListBefore, ListAfter,
                                 FirstAt(ListBefore, height),
                                 ArgsProfile(cur.call.args))
              [] cur.call.method = "removeEncoderBitrate" ->
                   ListAfter = Others(ListBefore, height)

\* an add has replaced the first of three profiles, the other two kept
C19_Witness ==
    /\ Wrote2
    /\ cur.call.method = "addEncoderBitrate"
    /\ Len(ListBefore) = 3
    /\ ListBefore[1].height = cur.call.args.height
    /\ ListBefore[2].height # cur.call.args.height
    /\ ListBefore[3].height # cur.call.args.height
    /\ ListAfter[1] = ArgsProfile(cur.call.args)

(***************************************************************************)
(* SpecPages: the user clicks the delete buttons of the page that is       *)
(* mounted and answers the prompts; the server answers what is awaited.    *)
(***************************************************************************)
\* how many handlers the user and the timers start in one run
MaxClicks == 3

CanClick == page.clicks < MaxClicks

Client == <<server, calls, lastWriter, started, cur>>

\* what the server may answer
StreamLists ==
    {<<>>, <<[streamId |-> "s1", name |-> "show"],
             [streamId |-> "stream1", name |-> Undefined]>>}

VodLists ==
    {<<>>, <<[streamId |-> "s1", name |-> "rec1"],
             [streamId |-> "v2", name |-> Undefined]>>}

RouteBroadcasts ==
    {[streamId |-> RouteStreamId, name |-> "show"],
     [streamId |-> RouteStreamId, name |-> Undefined]}

Failures == {Response(500, TRUE, "message" :> "denied"), NetworkFailure}

DeleteAnswers == {Response(200, TRUE, "success" :> TRUE)} \cup Failures

\* the answers to a GET: 200 with one of `values` as its body, or one of
\* `failures`
Answers(values, failures) ==
    {<<TRUE, v, NetworkFailure>> : v \in values}
        \cup {<<FALSE, CHOOSE v \in values : TRUE, f>> : f \in failures}

Answer(choice) == IF choice[1] THEN Response(200, TRUE, choice[2]) ELSE choice[3]

\* fetchBroadcasts() as autoAuthenticate, authenticate, handleReload and
\* handleCreateStream call it
HomeFetchBroadcasts ==
    /\ page.route = "/"
    /\ CanClick
    /\ page' = [StartFetchBroadcasts(page) EXCEPT !.clicks = @ + 1]
    /\ UNCHANGED Client

\* fetchBroadcasts() after its await: setStreams(data || []), setLoading(false)
HomeBroadcastsFetched ==
    /\ \E i \in DOMAIN page.flying :
        /\ page.flying[i].handler = "fetchBroadcasts"
        /\ \E choice \in Answers(StreamLists, Failures) :
            LET got == Resume(page.flying[i].call, Answer(choice)).result
            IN  page' = [Landed(page, i) EXCEPT
                            !.streams = IF got.kind = "ok" THEN got.value ELSE @,
                            !.loading = FALSE]
    /\ UNCHANGED Client

\* A variant of Home's delete button that asks nothing.
HomeHandleDeleteStreamUnasked ==
    /\ page.route = "/"
    /\ ~page.loading
    /\ CanClick
    /\ \E k \in DOMAIN page.streams :
        page' = Sending([page EXCEPT !.loading = TRUE, !.clicks = @ + 1],
                    "Home.handleDeleteStream",
                    deleteBroadcast([serverUrl |-> PageServerUrl,
                                     appName |-> PageAppName,
                                     streamId |-> page.streams[k].streamId,
                                     deleteSubtracks |-> <<>>,
                                     jwtToken |-> Undefined]),
                    FALSE)
    /\ UNCHANGED Client

\* Home.handleDeleteStream up to its await; the button is disabled while
\* loading
HomeHandleDeleteStream ==
    /\ page.route = "/"
    /\ ~page.loading
    /\ CanClick
    /\ \E k \in DOMAIN page.streams, confirmed \in BOOLEAN :
        LET streamId == page.streams[k].streamId
            streamName == NameOr(page.streams[k].name, page.streams[k].streamId)
            asked == [page EXCEPT
                        !.prompts = Append(@, Confirm("stream",
                                        NameOr(streamName, streamId), confirmed)),
                        !.clicks = @ + 1]
        IN  page' = IF ~confirmed THEN asked
                    ELSE Sending([asked EXCEPT !.loading = TRUE],
                             "Home.handleDeleteStream",
                             deleteBroadcast([serverUrl |-> PageServerUrl,
                                              appName |-> PageAppName,
                                              streamId |-> streamId,
                                              deleteSubtracks |-> <<>>,
                                              jwtToken |-> Undefined]),
                             FALSE)
    /\ UNCHANGED Client

\* Home.handleDeleteStream after its await: fetchBroadcasts(), or the alert
\* and setLoading(false)
HomeStreamDeleted ==
    /\ \E i \in DOMAIN page.flying :
        /\ page.flying[i].handler = "Home.handleDeleteStream"
        /\ \E resp \in DeleteAnswers :
            page' = IF Resume(page.flying[i].call, resp).result.kind = "ok"
                    THEN StartFetchBroadcasts(Landed(page, i))
                    ELSE [Landed(page, i) EXCEPT !.loading = FALSE]
    /\ UNCHANGED Client

\* StreamDetailPage.fetchBroadcast(true) of the 5 s interval
FetchBroadcast ==
    /\ page.route = "/stream"
    /\ CanClick
    /\ page' = [StartFetchBroadcast(page, TRUE) EXCEPT !.clicks = @ + 1]
    /\ UNCHANGED Client

\* the Refresh button, rendered with the broadcast and
\* disabled={loading || refreshing}: fetchBroadcast(false) up to its await
ManualRefresh ==
    /\ page.route = "/stream"
    /\ CanClick
    /\ ~page.detailLoading /\ ~page.refreshing
    /\ page.error = <<>> /\ page.broadcast # <<>>
    /\ page' = [StartFetchBroadcast(page, FALSE) EXCEPT !.clicks = @ + 1]
    /\ UNCHANGED Client

\* the place of the i-th awaited call among the awaited fetchBroadcast calls
Rank(p, i) ==
    Cardinality({j \in 1..i : p.flying[j].handler = "fetchBroadcast"})

\* fetchBroadcast after its await; the effect on broadcast?.streamId calls
\* fetchVods() when the id has changed
BroadcastFetched ==
    /\ \E i \in DOMAIN page.flying :
        /\ page.flying[i].handler = "fetchBroadcast"
        /\ \E choice \in Answers(RouteBroadcasts,
                                 {Response(404, TRUE, EmptyObject), NetworkFailure}) :
            LET got == Resume(page.flying[i].call, Answer(choice)).result
                late == Rank(page, i) <= page.overtaken
                done == [Landed(page, i) EXCEPT
                            !.refreshing = IF page.flying[i].flag THEN FALSE ELSE @,
                            !.detailLoading = IF page.flying[i].flag THEN @ ELSE FALSE,
                            !.overtaken = IF late THEN @ - 1 ELSE Rank(page, i) - 1,
                            !.stale = late]
            IN  page' = IF got.kind = "ok"
                        THEN IF page.broadcast = <<>>
                             THEN StartFetchVods([done EXCEPT !.broadcast = <<got.value>>],
                                                 FALSE)
                             ELSE [done EXCEPT !.broadcast = <<got.value>>]
                        ELSE [done EXCEPT !.error = <<got.error>>]
    /\ UNCHANGED Client

\* fetchVods after its await; handleDeleteVod's finally runs once the
\* fetchVods() it awaited is over
VodsFetched ==
    /\ \E i \in DOMAIN page.flying :
        /\ page.flying[i].handler = "fetchVods"
        /\ \E choice \in Answers(VodLists, Failures) :
            LET got == Resume(page.flying[i].call, Answer(choice)).result
            IN  page' = [Landed(page, i) EXCEPT
                            !.vods = IF got.kind = "ok" THEN got.value ELSE @,
                            !.vodsLoading = FALSE,
                            !.deletingVodId = IF page.flying[i].flag THEN Null ELSE @]
    /\ UNCHANGED Client

\* the detail page shows its buttons
Rendered ==
    /\ page.route = "/stream"
    /\ ~page.detailLoading
    /\ page.error = <<>>
    /\ page.broadcast # <<>>

\* StreamDetailPage.handleDeleteVod up to its await, called with
\* (vod.streamId, vod.name); the button is disabled for deletingVodId
HandleDeleteVod ==
    /\ Rendered
    /\ CanClick
    /\ \E k \in DOMAIN page.vods, confirmed \in BOOLEAN :
        /\ page.deletingVodId # page.vods[k].streamId
        /\ LET vodId == page.vods[k].streamId
               asked == [page EXCEPT
                           !.prompts = Append(@, Confirm("VOD",
                                           NameOr(page.vods[k].name, vodId),
                                           confirmed)),
                           !.clicks = @ + 1]
           IN  page' = IF ~confirmed THEN asked
                       ELSE Sending([asked EXCEPT !.deletingVodId = vodId],
                                "handleDeleteVod",
                                deleteVod([serverUrl |-> PageServerUrl,
                                           appName |-> PageAppName,
                                           vodId |-> vodId,
                                           jwtToken |-> Undefined]),
                                FALSE)
    /\ UNCHANGED Client

\* handleDeleteVod after its await: fetchVods(), or the alert and
\* setDeletingVodId(null)
VodDeleted ==
    /\ \E i \in DOMAIN page.flying :
        /\ page.flying[i].handler = "handleDeleteVod"
        /\ \E resp \in DeleteAnswers :
            page' = IF Resume(page.flying[i].call, resp).result.kind = "ok"
                    THEN StartFetchVods(Landed(page, i), TRUE)
                    ELSE [Landed(page, i) EXCEPT !.deletingVodId = Null]
    /\ UNCHANGED Client

\* StreamDetailPage.handleDeleteStream up to its await; the button is
\* disabled while deleting
DetailHandleDeleteStream ==
    /\ Rendered
    /\ ~page.deleting
    /\ CanClick
    /\ \E confirmed \in BOOLEAN :
        LET streamName == NameOr(page.broadcast[1].name, page.broadcast[1].streamId)
            asked == [page EXCEPT
                        !.prompts = Append(@, Confirm("stream", streamName, confirmed)),
                        !.clicks = @ + 1]
        IN  page' = IF ~confirmed THEN asked
                    ELSE Sending([asked EXCEPT !.deleting = TRUE],
                             "Detail.handleDeleteStream",
                             deleteBroadcast([serverUrl |-> PageServerUrl,
                                              appName |-> PageAppName,
                                              streamId |-> RouteStreamId,
                                              deleteSubtracks |-> <<>>,
                                              jwtToken |-> Undefined]),
                             FALSE)
    /\ UNCHANGED Client

\* handleDeleteStream after its await: router.push("/"), or the alert and
\* setDeleting(false)
DetailStreamDeleted ==
    /\ \E i \in DOMAIN page.flying :
        /\ page.flying[i].handler = "Detail.handleDeleteStream"
        /\ \E resp \in DeleteAnswers :
            page' = IF Resume(page.flying[i].call, resp).result.kind = "ok"
                    THEN [Landed(page, i) EXCEPT !.route = "/"]
                    ELSE [Landed(page, i) EXCEPT !.deleting = FALSE]
    /\ UNCHANGED Client

\* Home as constructed, or the detail page with the fetchBroadcast(false)
\* of its mount effect under way
InitPages ==
    /\ server = ("mp4MuxingEnabled" :> TRUE)
    /\ calls = [c \in Clients |-> Tracked(Idle)]
    /\ lastWriter = NoTab
    /\ started = 0
    /\ cur = NotCalled
    /\ page \in {Constructed("/"), StartFetchBroadcast(Constructed("/stream"), FALSE)}

NextPages ==
    \/ HomeFetchBroadcasts
    \/ HomeBroadcastsFetched
    \/ HomeHandleDeleteStream
    \/ HomeStreamDeleted
    \/ FetchBroadcast
    \/ ManualRefresh
    \/ BroadcastFetched
    \/ VodsFetched
    \/ HandleDeleteVod
    \/ VodDeleted
    \/ DetailHandleDeleteStream
    \/ DetailStreamDeleted

SpecPages == InitPages /\ [][NextPages]_vars

(***************************************************************************)
(* Properties of SpecPages                                                 *)
(***************************************************************************)
LastOf(seq) == seq[Len(seq)]

\* the step sends a DELETE request
SendsDelete ==
    /\ Len(page'.sent) = Len(page.sent) + 1
    /\ LastOf(page'.sent).method = "DELETE"

\* the step shows a prompt, and the user's answer to it
Asks(confirmed) ==
    /\ Len(page'.prompts) = Len(page.prompts) + 1
    /\ LastOf(page'.prompts).confirmed = confirmed

\* the prompt `asked` names the item (streamId, name) of kind `kind`, and
\* `request` deletes the item of that id under `collection`
SameItem(asked, request, kind, collection, item) ==
    /\ asked.kind = kind
    /\ asked.named = NameOr(item.name, item.streamId)
    /\ request.url = PageServerUrl \o "/" \o PageAppName \o "/rest/v2/"
                         \o collection \o "/" \o item.streamId

\* the prompt and the DELETE request of the step are about one stream or
\* VOD that the page shows
AsksForWhatItDeletes ==
    LET asked == LastOf(page'.prompts)
        request == LastOf(page'.sent)
    IN  \/ /\ page.route = "/"
           /\ \E k \in DOMAIN page.streams :
                SameItem(asked, request, "stream", "broadcasts", page.streams[k])
        \/ /\ page.route = "/stream"
           /\ page.broadcast # <<>>
           /\ page.broadcast[1].streamId = RouteStreamId
           /\ SameItem(asked, request, "stream", "broadcasts", page.broadcast[1])
        \/ /\ page.route = "/stream"
           /\ \E k \in DOMAIN page.vods :
                SameItem(asked, request, "VOD", "vods", page.vods[k])

\* the step sends nothing and leaves the pages' flags as they are
ChangesNothing ==
    /\ page'.sent = page.sent
    /\ page'.flying = page.flying
    /\ page'.loading = page.loading
    /\ page'.detailLoading = page.detailLoading
    /\ page'.deleting = page.deleting
    /\ page'.deletingVodId = page.deletingVodId

\* C20: every step of the pages that sends a DeleteBroadcast or DeleteVod
\* request has first shown a confirmation prompt naming the stream or VOD
\* the request deletes, and the user accepted it; a step whose prompt the
\* user declines sends no request and changes none of loading, deleting and
\* deletingVodId.
C20_DeletesAreConfirmed ==
    [][/\ SendsDelete => Asks(TRUE) /\ AsksForWhatItDeletes
       /\ Asks(FALSE) => ChangesNothing]_vars

\* the pages have sent a DELETE request after an accepted prompt, and a
\* declined prompt lies behind them as well
C20_Witness ==
    /\ \E i \in DOMAIN page.sent : page.sent[i].method = "DELETE"
    /\ \E j, k \in DOMAIN page.prompts :
        /\ page.prompts[j].confirmed
        /\ ~page.prompts[k].confirmed

\* C28: on the detail page the answer to a fetchBroadcast request that was
\* sent before another one never reaches the page after the answer to the
\* later one: what the page shows (broadcast, error) once all are answered
\* is the answer to the request sent last.
C28_LastIssuedWins == ~page.stale

(***************************************************************************)
(* SpecPlayback: the WebRTC playback page                                  *)
(* (stream/[id]/webrtc-playback/page.tsx).  The adaptor calls back in any  *)
(* order it can; the page's timers fire.  Each step runs one callback or   *)
(* timer, then the render and the effects its state changes cause.         *)
(* The one-second duration clock of startStatsCollection is left out, its  *)
(* interval (statsInterval) is kept.  Beside the page's state:             *)
(*   asked     - adaptor.play was called and has not been answered;        *)
(*   attempted - the last step called adaptor.play;                        *)
(*   delivered - the object of the updated_stats callback of the last      *)
(*               step, <<>> after any other step.                          *)
(***************************************************************************)
\* the retry count shown is kept up to this value
MaxRetryCount == 3

\* the errors the adaptor reports to callbackError
AdaptorErrors == {"no_stream_exist", "WebSocketNotConnected", ""}

\* parseWebRTCError on the errors of AdaptorErrors and PublishErrors
parseWebRTCError(error) ==
    IF error = "NotFoundError" THEN "Camera or microphone not found or denied."
    ELSE IF error = "WebSocketNotConnected" THEN "WebSocket connection disconnected."
    ELSE IF error # "" THEN error
    ELSE "An unknown error occurred."

\* the objects of an updated_stats callback; 0 stands for a field left out
StatsObjects ==
    {[currentIncomingBitrate |-> b, framesPerSecond |-> f, roundTripTime |-> 0,
      videoWidth |-> 1280, videoHeight |-> 720] : b \in {0, 2450}, f \in {0, 30}}

\* (n / 1000).toFixed(1)
ToFixed1OfThousandth(n) ==
    LET tenths == (n + 50) \div 100
    IN  ToString(tenths \div 10) \o "." \o ToString(tenths % 10)

\* the object handleCallback passes to setStats
PlaybackStats(obj) ==
    [bitrate |-> (IF obj.currentIncomingBitrate # 0
                  THEN ToFixed1OfThousandth(obj.currentIncomingBitrate)
                  ELSE "0") \o " kbps",
     resolution |-> ToString(obj.videoWidth) \o "x" \o ToString(obj.videoHeight),
     frameRate |-> IF obj.framesPerSecond # 0 THEN ToString(obj.framesPerSecond)
                   ELSE "N/A",
     latency |-> IF obj.roundTripTime # 0 THEN ToString(obj.roundTripTime) \o "ms"
                 ELSE "N/A"]

\* the useState(...) and useRef(...) initial values, then the mount effects:
\* the adaptor is created, the retry interval and the first timer are set
PlaybackMounted ==
    [isPlaying |-> FALSE, error |-> <<>>, status |-> "Ready to play",
     stats |-> <<>>, retryCount |-> 0,
     adaptor |-> TRUE, statsInterval |-> FALSE,
     retryInterval |-> TRUE, timer |-> TRUE, timerDep |-> FALSE,
     asked |-> FALSE, attempted |-> FALSE, delivered |-> <<>>]

\* what React renders from: the useState values
Shown(p) == <<p.isPlaying, p.error, p.status, p.stats, p.retryCount>>

\* The render after a step from `prev` to `next` and its effects: the
\* auto-retry effect runs again when isPlaying or error changed; the
\* start-playback effect runs again when adaptorRef.current differs from the
\* one the render before saw (null at the first render).
Rendered2(prev, next) ==
    LET retried ==
            IF prev.isPlaying # next.isPlaying \/ prev.error # next.error
            THEN [next EXCEPT !.retryInterval =
                      ~next.isPlaying /\ next.error = <<>> /\ next.adaptor]
            ELSE next
    IN  IF Shown(prev) # Shown(next) /\ ~prev.timerDep
        THEN [retried EXCEPT !.timerDep = TRUE,
                             !.timer = next.adaptor /\ ~next.isPlaying]
        ELSE retried

\* stopStatsCollection
stopStatsCollection(p) == [p EXCEPT !.statsInterval = FALSE, !.stats = <<>>]

\* attemptPlayback; throws: adaptor.play throws
attemptPlayback(p, throws) ==
    IF ~p.adaptor
    THEN [p EXCEPT !.error = <<"WebRTC adaptor not initialized">>]
    ELSE IF throws
    THEN [p EXCEPT !.error = <<"Failed to start playback">>,
                   !.status = "Connection failed, retrying...",
                   !.attempted = TRUE]
    ELSE [p EXCEPT !.error = <<>>, !.status = "Attempting to connect...",
                   !.retryCount = IF @ < MaxRetryCount THEN @ + 1 ELSE @,
                   !.asked = TRUE, !.attempted = TRUE]

\* every step but an attempt
Quiet(p) == [p EXCEPT !.attempted = FALSE, !.delivered = <<>>]

\* setInterval(() => attemptPlayback(), 3000) fires
RetryTick ==
    /\ page.retryInterval
    /\ \E throws \in BOOLEAN :
        page' = Rendered2(page, attemptPlayback(Quiet(page), throws))
    /\ UNCHANGED Client

\* setTimeout(() => attemptPlayback(), 1000) fires
StartTimer ==
    /\ page.timer
    /\ \E throws \in BOOLEAN :
        page' = Rendered2(page, attemptPlayback([Quiet(page) EXCEPT !.timer = FALSE],
                                                throws))
    /\ UNCHANGED Client

\* handleCallback("initialized")
PlaybackInitialized ==
    /\ page' = Rendered2(page, [Quiet(page) EXCEPT
                                   !.status = "Initialized - Ready to play",
                                   !.error = <<>>])
    /\ UNCHANGED Client

\* handleCallback("play_started"): the adaptor answers a play
PlayStarted ==
    /\ page.asked
    /\ page' = Rendered2(page, [Quiet(page) EXCEPT
                                   !.isPlaying = TRUE,
                                   !.status = "Playing stream: " \o RouteStreamId,
                                   !.error = <<>>, !.retryCount = 0,
                                   !.statsInterval = TRUE, !.asked = FALSE])
    /\ UNCHANGED Client

\* handleCallback("play_finished"): the stream that played has ended
PlayFinished ==
    /\ page.isPlaying
    /\ page' = Rendered2(page, [stopStatsCollection(Quiet(page)) EXCEPT
                                   !.isPlaying = FALSE, !.status = "Stream stopped"])
    /\ UNCHANGED Client

\* handleCallback("closed")
PlaybackClosed ==
    /\ page' = Rendered2(page, [stopStatsCollection(Quiet(page)) EXCEPT
                                   !.isPlaying = FALSE, !.asked = FALSE,
                                   !.status = "Connection closed"])
    /\ UNCHANGED Client

\* handleCallback("updated_stats", obj): the handler is the one the mount
\* effect built, and the isPlaying it reads is the one of the first render
UpdatedStats(p, obj) ==
    IF PlaybackMounted.isPlaying THEN [p EXCEPT !.stats = <<PlaybackStats(obj)>>] ELSE p

PlaybackUpdatedStats ==
    /\ \E obj \in StatsObjects :
        page' = Rendered2(page, [UpdatedStats(Quiet(page), obj) EXCEPT
                                    !.delivered = <<obj>>])
    /\ UNCHANGED Client

\* handleCallbackError(error)
PlaybackCallbackError ==
    /\ \E error \in AdaptorErrors :
        page' = Rendered2(page, [Quiet(page) EXCEPT
                                    !.error = <<parseWebRTCError(error)>>,
                                    !.status = "Error occurred",
                                    !.asked = FALSE])
    /\ UNCHANGED Client

InitPlayback ==
    /\ server = ("mp4MuxingEnabled" :> TRUE)
    /\ calls = [c \in Clients |-> Tracked(Idle)]
    /\ lastWriter = NoTab
    /\ started = 0
    /\ cur = NotCalled
    /\ page = PlaybackMounted

NextPlayback ==
    \/ RetryTick
    \/ StartTimer
    \/ PlaybackInitialized
    \/ PlayStarted
    \/ PlayFinished
    \/ PlaybackClosed
    \/ PlaybackUpdatedStats
    \/ PlaybackCallbackError

\* the browser fires a timer that stays set
SpecPlayback ==
    /\ InitPlayback
    /\ [][NextPlayback]_vars
    /\ WF_vars(RetryTick)
    /\ WF_vars(StartTimer)

(***************************************************************************)
(* Properties of SpecPlayback                                              *)
(***************************************************************************)
\* C21: auto-retry is always enabled: whenever the stream is not playing, a
\* further playback attempt (adaptor.play) is eventually made, unless the
\* stream plays first.
C21_AlwaysRetries ==
    [](~page.isPlaying => <>(page.attempted \/ page.isPlaying))

\* C22: whenever the stream is playing and the adaptor delivers an
\* updated_stats callback with a stats object, the page's stats are the ones
\* made from that object.
C22_StatsShown ==
    page.isPlaying /\ page.delivered # <<>>
        => page.stats = <<PlaybackStats(page.delivered[1])>>

(***************************************************************************)
(* SpecHome: the dashboard page (Home).  React runs the mount effect, the  *)
(* user clicks the buttons that are enabled, and the server answers the    *)
(* requests that are awaited, in any order.  A handler runs from a click   *)
(* or an answer to its next await in one step.                             *)
(***************************************************************************)
\* how many handlers the user starts in one run
MaxHandlers == 1
\* how often React invokes the body of the mount effect of one mounted page
MaxEffectRuns == 2

\* useState(...) of Home: its `settings`
HomeSettings ==
    [serverUrl |-> PageServerUrl, appName |-> PageAppName,
     email |-> "andranik@titanhub.io", password |-> "andranik@titanhub.io",
     jwtToken |-> "jwt-1"]

\* useState(...) of Home: the first render.  flying: the handlers that
\* await a request, as a bag of frames; clicks, effectRuns, autoAuths: how many handlers the
\* user started, how often the mount effect ran and how many authenticate
\* requests it sent.
HomeMounted ==
    [loading |-> FALSE, loadingSettings |-> FALSE, isAuthenticated |-> FALSE,
     authAttempted |-> FALSE, streams |-> <<>>, bitrates |-> <<>>,
     mp4RecordingEnabled |-> FALSE,
     flying |-> EmptyBag, clicks |-> 0, effectRuns |-> 0, autoAuths |-> 0]

\* BITRATE_PRESETS[2] and the initial newBitrate
Preset720 == [height |-> 720, videoBitrate |-> 2500, audioBitrate |-> 128]

\* `handler` awaits `call` at its await named `stage`
Await(p, handler, stage, call) ==
    [p EXCEPT !.flying = @ (+) SetToBag({[handler |-> handler, stage |-> stage,
                                          call |-> call]})]

\* the awaited call of frame f has its response
Resumed(p, f) == [p EXCEPT !.flying = @ (-) SetToBag({f})]

\* AntMediaClient.authenticate(settings...) of autoAuthenticate and handleReload
HomeAuthenticate ==
    authenticate([serverUrl |-> HomeSettings.serverUrl,
                  appName |-> HomeSettings.appName, email |-> HomeSettings.email,
                  password |-> HomeSettings.password,
                  jwtToken |-> HomeSettings.jwtToken])

\* `if (result.success)`
Success(got) ==
    /\ got.kind = "ok"
    /\ Has(got.value, "success")
    /\ got.value["success"] = TRUE

\* fetchBroadcasts() up to its await, inside `handler`
fetchBroadcastsBy(p, handler) ==
    Await([p EXCEPT !.loading = TRUE], handler, "fetchBroadcasts",
          fetchBroadcasts([serverUrl |-> HomeSettings.serverUrl,
                           appName |-> HomeSettings.appName,
                           offset |-> 0, size |-> 50, type_by |-> Undefined,
                           sort_by |-> Undefined, order_by |-> Undefined,
                           search |-> Undefined,
                           jwtToken |-> HomeSettings.jwtToken]))

\* fetchBroadcasts() after its await: setStreams(data || []), and
\* setLoading(false) in its finally
fetchBroadcastsEnded(p, got) ==
    [p EXCEPT !.streams = IF got.kind = "ok" THEN got.value ELSE @,
              !.loading = FALSE]

\* loadAppSettings() up to its first await, inside `handler`
loadAppSettingsBy(p, handler) ==
    Await([p EXCEPT !.loadingSettings = TRUE], handler, "getAllEncoderBitrates",
          getAllEncoderBitrates([serverUrl |-> HomeSettings.serverUrl,
                                 appName |-> HomeSettings.appName,
                                 jwtToken |-> HomeSettings.jwtToken]))

LoadStages == {"getAllEncoderBitrates", "getSettings"}

\* loadAppSettings() returns to its caller with this answer
LoadEnded(stage, got) == stage = "getSettings" \/ got.kind = "error"

\* appSettings.mp4MuxingEnabled || false
Mp4MuxingEnabled(settings) ==
    Has(settings, "mp4MuxingEnabled") /\ settings["mp4MuxingEnabled"] = TRUE

\* loadAppSettings() after one of its awaits: the second read after the
\* first, and setLoadingSettings(false) in its finally
loadAppSettingsResumed(p, handler, stage, got) ==
    IF got.kind = "error" THEN [p EXCEPT !.loadingSettings = FALSE]
    ELSE IF stage = "getAllEncoderBitrates"
    THEN Await([p EXCEPT !.bitrates = got.value["array"]], handler, "getSettings",
               getSettings([serverUrl |-> HomeSettings.serverUrl,
                            appName |-> HomeSettings.appName,
                            jwtToken |-> HomeSettings.jwtToken]))
    ELSE [p EXCEPT !.mp4RecordingEnabled = Mp4MuxingEnabled(got.value),
                   !.loadingSettings = FALSE]

\* the autoAuthenticate of the mount effect after one of its awaits
autoAuthenticateResumed(p, stage, got) ==
    CASE stage = "authenticate" ->
            IF got.kind = "error" \/ ~Success(got)
            THEN [p EXCEPT !.isAuthenticated = FALSE, !.loading = FALSE]
            ELSE fetchBroadcastsBy([p EXCEPT !.isAuthenticated = TRUE],
                                   "autoAuthenticate")
      [] stage = "fetchBroadcasts" ->
            loadAppSettingsBy(fetchBroadcastsEnded(p, got), "autoAuthenticate")
      [] stage \in LoadStages ->
            LET q == loadAppSettingsResumed(p, "autoAuthenticate", stage, got)
            IN  IF LoadEnded(stage, got) THEN [q EXCEPT !.loading = FALSE] ELSE q

\* handleReload after one of its awaits
handleReloadResumed(p, stage, got) ==
    CASE stage = "authenticate" ->
            IF got.kind = "error" \/ ~Success(got)
            THEN [p EXCEPT !.isAuthenticated = FALSE, !.loading = FALSE]
            ELSE loadAppSettingsBy([p EXCEPT !.isAuthenticated = TRUE,
                                             !.loadingSettings = TRUE],
                                   "handleReload")
      [] stage \in LoadStages ->
            LET q == loadAppSettingsResumed(p, "handleReload", stage, got)
            IN  IF LoadEnded(stage, got)
                THEN fetchBroadcastsBy([q EXCEPT !.loadingSettings = FALSE],
                                       "handleReload")
                ELSE q
      [] stage = "fetchBroadcasts" ->
            [fetchBroadcastsEnded(p, got) EXCEPT !.loading = FALSE]

\* handleCreateStream and handleDeleteStream after one of their awaits
StreamHandlerResumed(p, handler, stage, got) ==
    CASE stage \in {"createBroadcast", "deleteBroadcast"} ->
            IF got.kind = "error" THEN [p EXCEPT !.loading = FALSE]
            ELSE fetchBroadcastsBy(p, handler)
      [] stage = "fetchBroadcasts" ->
            [fetchBroadcastsEnded(p, got) EXCEPT !.loading = FALSE]

\* A variant of the end of a bitrate handler without its finally.
BitrateHandlerKeepsFlag(p) == p

\* the end of a bitrate handler: setLoadingSettings(false) in its finally
BitrateHandlerEnded(p) == [p EXCEPT !.loadingSettings = FALSE]

\* handleAddBitrate, handleAddPresetBitrate and handleRemoveBitrate after
\* one of their awaits
BitrateHandlerResumed(p, handler, stage, got) ==
    CASE stage \in {"addEncoderBitrate", "removeEncoderBitrate"} ->
            IF got.kind = "error" THEN BitrateHandlerEnded(p)
            ELSE loadAppSettingsBy(p, handler)
      [] stage \in LoadStages ->
            LET q == loadAppSettingsResumed(p, handler, stage, got)
            IN  IF LoadEnded(stage, got) THEN BitrateHandlerEnded(q) ELSE q

\* handleToggleMp4Recording after its await; `enabled` is the
\* !mp4RecordingEnabled of the render that was clicked
handleToggleMp4RecordingResumed(p, enabled, got) ==
    [p EXCEPT !.mp4RecordingEnabled = IF got.kind = "ok" THEN enabled ELSE @,
              !.loadingSettings = FALSE]

\* the handler of frame f goes on with the result of its call
HandlerResumed(p, f, got) ==
    CASE f.handler = "autoAuthenticate" -> autoAuthenticateResumed(p, f.stage, got)
      [] f.handler = "handleReload" -> handleReloadResumed(p, f.stage, got)
      [] f.handler \in {"handleCreateStream", "handleDeleteStream"} ->
            StreamHandlerResumed(p, f.handler, f.stage, got)
      [] f.handler \in {"handleAddBitrate", "handleAddPresetBitrate",
                        "handleRemoveBitrate"} ->
            BitrateHandlerResumed(p, f.handler, f.stage, got)
      [] f.handler = "handleToggleMp4Recording" ->
            handleToggleMp4RecordingResumed(p, f.call.args.enabled, got)

\* what the server may answer to the request a frame awaits
HomeSettingsBodies ==
    {("encoderSettings" :> <<Profile(720, 2500, 128, FALSE)>>)
        @@ ("mp4MuxingEnabled" :> TRUE),
     "mp4MuxingEnabled" :> FALSE}

HomeAnswers(f) ==
    CASE f.stage = "authenticate" ->
            Answers({"success" :> TRUE, "success" :> FALSE}, Failures)
      [] f.stage = "fetchBroadcasts" -> Answers(StreamLists, Failures)
      [] LastRequest(f.call).method = "GET" -> Answers(HomeSettingsBodies, Failures)
      [] OTHER -> Answers({"success" :> TRUE}, Failures)

\* The mount effect: autoAuthenticate() up to its await.  The effect has no
\* dependencies, so its body belongs to the first render and reads the
\* authAttempted of that render.
HomeMountEffect ==
    /\ page.effectRuns < MaxEffectRuns
    /\ page' = IF HomeMounted.authAttempted
               THEN [page EXCEPT !.effectRuns = @ + 1]
               ELSE Await([page EXCEPT !.authAttempted = TRUE, !.loading = TRUE,
                                       !.effectRuns = @ + 1, !.autoAuths = @ + 1],
                          "autoAuthenticate", "authenticate", HomeAuthenticate)
    /\ UNCHANGED Client

CanStartHandler == page.effectRuns > 0 /\ page.clicks < MaxHandlers

\* Reload, disabled={loading || loadingSettings}: handleReload up to its await
HomeHandleReload ==
    /\ CanStartHandler
    /\ ~page.loading /\ ~page.loadingSettings
    /\ page' = Await([page EXCEPT !.loading = TRUE, !.clicks = @ + 1],
                     "handleReload", "authenticate", HomeAuthenticate)
    /\ UNCHANGED Client

\* Create Stream, disabled={loading}: handleCreateStream up to its await,
\* with a stream name typed
HomeHandleCreateStream ==
    /\ CanStartHandler
    /\ ~page.loading
    /\ page' = Await([page EXCEPT !.loading = TRUE, !.clicks = @ + 1],
                     "handleCreateStream", "createBroadcast",
                     createBroadcast([serverUrl |-> HomeSettings.serverUrl,
                                      appName |-> HomeSettings.appName,
                                      broadcast |-> [name |-> "show"],
                                      autoStart |-> <<>>,
                                      jwtToken |-> Undefined]))
    /\ UNCHANGED Client

\* Delete of a listed stream, disabled={loading}: handleDeleteStream up to
\* its await
HomeDeleteStream ==
    /\ CanStartHandler
    /\ ~page.loading
    /\ \E k \in DOMAIN page.streams, confirmed \in BOOLEAN :
        page' = IF ~confirmed THEN [page EXCEPT !.clicks = @ + 1]
                ELSE Await([page EXCEPT !.loading = TRUE, !.clicks = @ + 1],
                           "handleDeleteStream", "deleteBroadcast",
                           deleteBroadcast([serverUrl |-> HomeSettings.serverUrl,
                                            appName |-> HomeSettings.appName,
                                            streamId |-> page.streams[k].streamId,
                                            deleteSubtracks |-> <<>>,
                                            jwtToken |-> Undefined]))
    /\ UNCHANGED Client

\* the bitrate and recording controls are rendered when authenticated and
\* are disabled={loadingSettings}
BitrateControls == page.isAuthenticated /\ ~page.loadingSettings

\* Add Custom Profile: handleAddBitrate up to its await
HomeHandleAddBitrate ==
    /\ CanStartHandler
    /\ BitrateControls
    /\ page' = Await([page EXCEPT !.loadingSettings = TRUE, !.clicks = @ + 1],
                     "handleAddBitrate", "addEncoderBitrate",
                     addEncoderBitrate(
                         [serverUrl |-> HomeSettings.serverUrl,
                          appName |-> HomeSettings.appName,
                          height |-> Preset720.height,
                          videoBitrate |-> Preset720.videoBitrate,
                          audioBitrate |-> Preset720.audioBitrate,
                          forceEncode |-> FALSE,
                          jwtToken |-> HomeSettings.jwtToken]))
    /\ UNCHANGED Client

\* a preset button: handleAddPresetBitrate up to its await
HomeHandleAddPresetBitrate ==
    /\ CanStartHandler
    /\ BitrateControls
    /\ page' = Await([page EXCEPT !.loadingSettings = TRUE, !.clicks = @ + 1],
                     "handleAddPresetBitrate", "addEncoderBitrate",
                     addEncoderBitrate(
                         [serverUrl |-> HomeSettings.serverUrl,
                          appName |-> HomeSettings.appName,
                          height |-> Preset720.height,
                          videoBitrate |-> Preset720.videoBitrate,
                          audioBitrate |-> Preset720.audioBitrate,
                          forceEncode |-> FALSE,
                          jwtToken |-> HomeSettings.jwtToken]))
    /\ UNCHANGED Client

\* Remove of a listed profile: handleRemoveBitrate up to its await
HomeHandleRemoveBitrate ==
    /\ CanStartHandler
    /\ BitrateControls
    /\ \E k \in DOMAIN page.bitrates :
        page' = Await([page EXCEPT !.loadingSettings = TRUE, !.clicks = @ + 1],
                      "handleRemoveBitrate", "removeEncoderBitrate",
                      removeEncoderBitrate(
                          [serverUrl |-> HomeSettings.serverUrl,
                           appName |-> HomeSettings.appName,
                           height |-> page.bitrates[k].height,
                           jwtToken |-> HomeSettings.jwtToken]))
    /\ UNCHANGED Client

\* the MP4 switch: handleToggleMp4Recording up to its await
HomeHandleToggleMp4Recording ==
    /\ CanStartHandler
    /\ BitrateControls
    /\ page' = Await([page EXCEPT !.loadingSettings = TRUE, !.clicks = @ + 1],
                     "handleToggleMp4Recording", "setMp4RecordingEnabled",
                     setMp4RecordingEnabled(
                         [serverUrl |-> HomeSettings.serverUrl,
                          appName |-> HomeSettings.appName,
                          enabled |-> ~page.mp4RecordingEnabled,
                          jwtToken |-> HomeSettings.jwtToken]))
    /\ UNCHANGED Client

\* The server answers the request of one awaiting handler.  The client call
\* goes on: it sends its write after its read, or it ends and the handler
\* goes on to its next await or to its end.
HomeAnswered ==
    /\ \E f \in BagToSet(page.flying) :
        \E choice \in HomeAnswers(f) :
            LET call == Resume(f.call, Answer(choice))
            IN  page' = IF call.pc = "awaiting"
                        THEN Await(Resumed(page, f), f.handler, f.stage, call)
                        ELSE HandlerResumed(Resumed(page, f), f, call.result)
    /\ UNCHANGED Client

InitHome ==
    /\ server = ("mp4MuxingEnabled" :> TRUE)
    /\ calls = [c \in Clients |-> Tracked(Idle)]
    /\ lastWriter = NoTab
    /\ started = 0
    /\ cur = NotCalled
    /\ page = HomeMounted

NextHome ==
    \/ HomeMountEffect
    \/ HomeHandleReload
    \/ HomeHandleCreateStream
    \/ HomeDeleteStream
    \/ HomeHandleAddBitrate
    \/ HomeHandleAddPresetBitrate
    \/ HomeHandleRemoveBitrate
    \/ HomeHandleToggleMp4Recording
    \/ HomeAnswered

SpecHome == InitHome /\ [][NextHome]_vars

\* C23: over the lifetime of one mounted dashboard page the mount effect
\* sends at most one authenticate request, however often React invokes the
\* body of the effect.
C23_AuthenticatesOnce == page.autoAuths <= 1

\* the bitrate handlers whose read-modify-write of the encoder settings is
\* awaited
ReadModifyWrites ==
    LET awaited == {f \in BagToSet(page.flying) :
                       f.stage \in {"addEncoderBitrate", "removeEncoderBitrate"}}
    IN  [f \in awaited |-> page.flying[f]]

\* C24: on a page whose mount effect ran once, at most one read-modify-write
\* of the encoder settings is in flight, and while one is in flight
\* loadingSettings is true, so that the add and remove controls are disabled.
C24_OneReadModifyWrite ==
    page.effectRuns <= 1 =>
        /\ BagCardinality(ReadModifyWrites) <= 1
        /\ BagCardinality(ReadModifyWrites) > 0 => page.loadingSettings

\* C27: whenever no handler of the dashboard page awaits a request, loading
\* and loadingSettings are both false.
C27_QuietMeansEnabled ==
    BagToSet(page.flying) = {} => ~page.loading /\ ~page.loadingSettings

\* handlers have run and ended, an earlier one with success (streams were
\* listed) and a later one with a failed authentication
C27_Witness ==
    /\ BagToSet(page.flying) = {}
    /\ page.clicks >= 1
    /\ page.streams # <<>>
    /\ ~page.isAuthenticated
    /\ ~page.loading /\ ~page.loadingSettings

(***************************************************************************)
(* SpecBroadcast: the WebRTC broadcast page.  The user uses the controls   *)
(* that are rendered and enabled, the adaptor calls back, the device list  *)
(* and the stream status arrive.  A step is one handler together with the  *)
(* render that follows it and the effects of that render.                  *)
(***************************************************************************)
\* how many adaptors the page creates in one run
MaxAdaptors == 3

\* The page after its first render and the effects of it.  adaptor: which
\* instance adaptorRef.current is, counted from 1; seen: the inputSource and
\* isPublishing of the render that created it, which its handleCallback and
\* handleCallbackError read; ready, asked: the instance has called back
\* "initialized", publish() was called on it; publisher: the instance that
\* called back "publish_started" and has not stopped since, 0 for none;
\* disposed: the instances handed to disposeAdaptor; devices, checking: the
\* getMediaDevices() promise and the getBroadcast of checkStreamStatus are
\* pending.
BroadcastMounted(supported) ==
    [isPublishing |-> FALSE, error |-> <<>>, status |-> "Ready to broadcast",
     inputSource |-> "camera", screenShareSupported |-> supported,
     cameras |-> 0, selectedCamera |-> "", stats |-> <<>>,
     adaptorInitialized |-> FALSE, testStream |-> FALSE,
     adaptor |-> 1, seen |-> [inputSource |-> "camera", isPublishing |-> FALSE],
     ready |-> FALSE, asked |-> FALSE, publisher |-> 0, disposed |-> {},
     devices |-> TRUE, checking |-> FALSE, switching |-> FALSE]

\* The render after a step from `prev` to `next` and its effects.  The
\* adaptor effect depends on inputSource and selectedCamera: when one of
\* them changed, its cleanup hands adaptorRef.current to disposeAdaptor and
\* its body creates the next adaptor (and the test stream, for 'test').
\* The status effect depends on adaptorInitialized.
BroadcastRendered(prev, next) ==
    LET recreated ==
            IF \/ prev.inputSource # next.inputSource
               \/ prev.selectedCamera # next.selectedCamera
            THEN [next EXCEPT
                    !.disposed = @ \cup {prev.adaptor},
                    !.adaptor = prev.adaptor + 1,
                    !.seen = [inputSource |-> next.inputSource,
                              isPublishing |-> next.isPublishing],
                    !.ready = FALSE, !.asked = FALSE,
                    !.testStream = @ \/ next.inputSource = "test"]
            ELSE next
    IN  IF next.adaptorInitialized /\ ~prev.adaptorInitialized
        THEN [recreated EXCEPT !.checking = TRUE]
        ELSE recreated

\* a step that may make the page create an adaptor
CanCreate == page.adaptor < MaxAdaptors

\* getMediaDevices().then(...) of the mount effect; n: how many cameras
DevicesListed ==
    /\ page.devices
    /\ CanCreate
    /\ \E n \in {0, 1} :
        page' = BroadcastRendered(page,
                    [page EXCEPT !.devices = FALSE, !.cameras = n,
                                 !.selectedCamera = IF n > 0 THEN "camera-1" ELSE @,
                                 !.inputSource = IF n > 0 THEN "camera" ELSE "test"])
    /\ UNCHANGED Client

\* the input source radios, disabled={isPublishing} (camera: also with no
\* camera; screen: rendered when screen share is supported)
SelectInputSource ==
    /\ ~page.isPublishing
    /\ CanCreate
    /\ \E source \in {"camera", "screen", "test"} :
        /\ source = "camera" => page.cameras > 0
        /\ source = "screen" => page.screenShareSupported
        /\ source # page.inputSource
        /\ page' = BroadcastRendered(page, [page EXCEPT !.inputSource = source])
    /\ UNCHANGED Client

\* handleCallback("initialized") of the current adaptor
PublishInitialized ==
    /\ ~page.ready
    /\ page' = BroadcastRendered(page,
                   [page EXCEPT
                       !.ready = TRUE,
                       !.status = IF page.seen.inputSource = "test"
                                  THEN "Ready to broadcast (Test Source Mode)"
                                  ELSE "Initialized - Ready to publish",
                       !.adaptorInitialized = TRUE, !.error = <<>>])
    /\ UNCHANGED Client

\* checkStreamStatus after its await; broadcasting: the stream is already
\* broadcasting over WebRTC
StreamStatusChecked ==
    /\ page.checking
    /\ \E broadcasting \in BOOLEAN :
        page' = BroadcastRendered(page,
                    IF broadcasting
                    THEN [page EXCEPT !.checking = FALSE, !.isPublishing = TRUE,
                              !.status = "Stream is already broadcasting: "
                                             \o RouteStreamId]
                    ELSE [page EXCEPT !.checking = FALSE])
    /\ UNCHANGED Client

\* Start Broadcast, disabled={isPublishing}: handleStartBroadcast
HandleStartBroadcast ==
    /\ ~page.isPublishing
    /\ page' = BroadcastRendered(page,
                   [page EXCEPT !.error = <<>>, !.status = "Starting broadcast...",
                                !.asked = TRUE])
    /\ UNCHANGED Client

\* handleCallback("publish_started") of the current adaptor
PublishStarted ==
    /\ page.asked
    /\ page' = BroadcastRendered(page,
                   [page EXCEPT
                       !.isPublishing = TRUE, !.asked = FALSE,
                       !.publisher = page.adaptor,
                       !.status = "Publishing stream: " \o RouteStreamId
                                      \o (IF page.seen.inputSource = "test"
                                          THEN " (Test Source)" ELSE ""),
                       !.error = <<>>])
    /\ UNCHANGED Client

\* handleCallback("publish_finished") and handleCallback("closed") of the
\* adaptor that publishes
PublishEnded ==
    /\ page.publisher = page.adaptor
    /\ \E status \in {"Broadcast stopped", "Connection closed"} :
        page' = BroadcastRendered(page,
                    [page EXCEPT !.isPublishing = FALSE, !.publisher = 0,
                                 !.status = status, !.stats = <<>>])
    /\ UNCHANGED Client

\* Stop Broadcast, disabled={!isPublishing}: handleStopBroadcast
HandleStopBroadcast ==
    /\ page.isPublishing
    /\ page' = BroadcastRendered(page,
                   [page EXCEPT !.isPublishing = FALSE, !.publisher = 0,
                                !.asked = FALSE,
                                !.status = "Broadcast stopped", !.stats = <<>>,
                                !.testStream = @ /\ page.inputSource # "test"])
    /\ UNCHANGED Client

\* the Switch button, rendered while publishing from camera or screen with
\* screen share supported: handleSwitchInputSource from camera to screen,
\* and from screen up to `await switchVideoCameraCapture(...)`
HandleSwitchInputSource ==
    /\ page.screenShareSupported /\ page.isPublishing
    /\ page.inputSource # "test"
    /\ ~page.switching
    /\ CanCreate
    /\ page' = BroadcastRendered(page,
                   IF page.inputSource = "camera"
                   THEN [page EXCEPT !.error = <<>>, !.inputSource = "screen",
                                     !.status = "Switched to screen sharing"]
                   ELSE [page EXCEPT !.error = <<>>, !.switching = TRUE])
    /\ UNCHANGED Client

\* handleSwitchInputSource after its await: the camera was switched to, or
\* the switch was rejected
SwitchedToCamera ==
    /\ page.switching
    /\ CanCreate
    /\ \E rejected \in BOOLEAN :
        page' = BroadcastRendered(page,
                    IF rejected
                    THEN [page EXCEPT !.switching = FALSE,
                                      !.error = <<"Failed to switch source">>]
                    ELSE [page EXCEPT !.switching = FALSE,
                                      !.inputSource = "camera",
                                      !.status = "Switched back to camera"])
    /\ UNCHANGED Client

\* handleCallback("screen_share_stopped"): the user has ended the screen
\* capture in the browser
ScreenShareStopped ==
    /\ page.inputSource = "screen"
    /\ CanCreate
    /\ page' = BroadcastRendered(page,
                   [page EXCEPT !.inputSource = "camera",
                                !.status = "Screen sharing stopped"])
    /\ UNCHANGED Client

\* the errors the adaptor reports
PublishErrors == {"highResourceUsage", "NotFoundError", "WebSocketNotConnected"}

\* handleCallbackError of the current adaptor
PublishCallbackError ==
    /\ \E error \in PublishErrors :
        page' = BroadcastRendered(page,
                    IF page.seen.inputSource = "test" /\ error = "NotFoundError"
                    THEN page
                    ELSE IF error = "highResourceUsage"
                    THEN LET failed ==
                                 [page EXCEPT
                                     !.error = <<"Server resource limit reached. Unable to broadcast. Please try again later.">>,
                                     !.status = "Broadcast failed - Server busy"]
                         IN  IF page.seen.isPublishing
                             THEN [failed EXCEPT !.isPublishing = FALSE,
                                                 !.publisher = 0, !.asked = FALSE,
                                                 !.stats = <<>>]
                             ELSE failed
                    ELSE [page EXCEPT !.error = <<parseWebRTCError(error)>>,
                                      !.status = "Error occurred"])
    /\ UNCHANGED Client

InitBroadcast ==
    /\ server = ("mp4MuxingEnabled" :> TRUE)
    /\ calls = [c \in Clients |-> Tracked(Idle)]
    /\ lastWriter = NoTab
    /\ started = 0
    /\ cur = NotCalled
    /\ \E supported \in BOOLEAN : page = BroadcastMounted(supported)

NextBroadcast ==
    \/ DevicesListed
    \/ SelectInputSource
    \/ PublishInitialized
    \/ StreamStatusChecked
    \/ HandleStartBroadcast
    \/ PublishStarted
    \/ PublishEnded
    \/ HandleStopBroadcast
    \/ HandleSwitchInputSource
    \/ SwitchedToCamera
    \/ ScreenShareStopped
    \/ PublishCallbackError

SpecBroadcast == InitBroadcast /\ [][NextBroadcast]_vars

\* C29: while an adaptor publishes (from its publish_started to
\* publish_finished, closed or Stop) no step of the user or of the adaptor
\* replaces the page's adaptor or hands an adaptor to disposeAdaptor.  The
\* device list has arrived, so the step is none of the mount effect.
C29_PublisherIsKept ==
    [][(/\ page.publisher # 0
        /\ page'.publisher = page.publisher
        /\ ~page.devices)
       => /\ page'.adaptor = page.adaptor
          /\ page'.disposed = page.disposed]_vars

====
